---- MODULE Spec2Model ----
(***************************************************************************)
(* The xrootd backend of rclone: the pool of xrootd clients (f.pool,       *)
(* getXrootdConnection, ConnectionFree), the adapter operations that       *)
(* acquire a client around each remote call, and the chunked upload of     *)
(* Object.Update.                                                          *)
(*                                                                         *)
(* Every goroutine p runs a stack of frames, one per active Go function.   *)
(* An action is one step of the function on top of the stack: at most one  *)
(* access to shared state (the pool, its mutex, the remote server) with    *)
(* the local computation around it.  A call pushes a frame; a return pops  *)
(* it and leaves the returned values in rv[p]; the deferred calls of a     *)
(* frame run, last registered first, before the frame is popped.           *)
(***************************************************************************)
EXTENDS Integers, Sequences, FiniteSets, TLC

\* ------------------------------------------------------------- bounds
NumProcs == 2
MaxSessions == 3
BufSize == 2
MaxLen == 1
MaxByte == 1
MaxZeroReads == 1
MaxCalls == 2

Procs == 1..NumProcs
Sessions == 1..MaxSessions

\* error values: "nil" is Go's nil error
Nil == "nil"
NoConn == 0

VARIABLES
    pool,        \* f.pool: the idle clients, in release order
    poolMu,      \* f.poolMu: 0 when free, else the goroutine holding it
    sess,        \* the conn objects created so far: c.err and the number of c.client.Close() calls
    nsess,       \* how many conn objects XrootdConnection has created
    stack,       \* per goroutine, the frames of the active functions (last = running)
    rv,          \* per goroutine, the values returned by the last function that returned
    checkedOut,  \* per conn, how many callers currently hold it (returned by an acquire, not yet released)
    crashed,     \* an unrecovered panic has ended the process
    trace,       \* per goroutine, what its current top-level call has done so far: dials, reuses, releases, remote calls
    op,          \* per goroutine, the top-level call it is running or ran last, with its arguments
    remote,      \* the server's name space: what is stored at each path
    obj,         \* per goroutine, the Object handle it works with: the cached size, modTime and hash
    opt,         \* f.opt: the options of the Fs
    ncalls       \* how many top-level calls of the adapter have been started

poolVars == <<pool, poolMu, sess, nsess, checkedOut>>
envVars == <<remote, obj, opt, ncalls>>
vars == <<pool, poolMu, sess, nsess, stack, rv, checkedOut, crashed, trace, op, remote, obj, opt, ncalls>>

\* ------------------------------------------------------------- frames
NoVal == <<>>
Res(err, val) == [err |-> err, c |-> NoConn, panic |-> FALSE, val |-> val]
Got(c, err) == [err |-> err, c |-> c, panic |-> FALSE, val |-> NoVal]
NoRes == Res(Nil, NoVal)

Frame(fn, pc, c, err, loc) ==
    [fn |-> fn, pc |-> pc, c |-> c, err |-> err, defers |-> <<>>, res |-> NoRes, loc |-> loc]

Depth(p) == Len(stack[p])
Cur(p) == stack[p][Len(stack[p])]
\* p is running fn at pc (after an unrecovered panic nothing runs)
At(p, fn, pc) == ~crashed /\ Depth(p) > 0 /\ Cur(p).fn = fn /\ Cur(p).pc = pc
Below(p) == SubSeq(stack[p], 1, Len(stack[p]) - 1)

\* the running frame becomes f
Upd(p, f) == stack' = [stack EXCEPT ![p] = Append(Below(p), f)]
\* the running frame becomes f and calls callee
Call(p, f, callee) == stack' = [stack EXCEPT ![p] = Append(Append(Below(p), f), callee)]
\* the running frame returns res (it has no deferred call left).  A panic
\* unwinds: the caller stops where it is and runs its own deferred calls; with
\* no caller left, nothing recovers it and the process ends.
Ret(p, res) ==
    /\ rv' = [rv EXCEPT ![p] = res]
    /\ IF res.panic /\ Depth(p) > 1
         THEN LET caller == stack[p][Depth(p) - 1]
              IN stack' = [stack EXCEPT ![p] =
                     Append(SubSeq(stack[p], 1, Depth(p) - 2),
                            [caller EXCEPT !.pc = "defer", !.res = res])]
         ELSE stack' = [stack EXCEPT ![p] = Below(p)]
    /\ crashed' = (crashed \/ (res.panic /\ Depth(p) = 1))

\* frame f executes a return statement (or panics) with result res
Leave(p, f, res) ==
    IF f.defers = <<>>
      THEN Ret(p, res)
      ELSE /\ Upd(p, [f EXCEPT !.pc = "defer", !.res = res])
           /\ UNCHANGED <<rv, crashed>>

PanicRes == [err |-> "panic", c |-> NoConn, panic |-> TRUE, val |-> NoVal]

NoOp == [name |-> "none"]
\* a fresh &Object{fs: f, remote: remote}
NoObj == [hash |-> <<>>, size |-> 0, modTime |-> "zero"]

\* what a top-level call has done: k is "dial", "reuse", "free" or "rpc"
Ev(k, name, c, ok) == [k |-> k, name |-> name, c |-> c, ok |-> ok]
\* in.Read has failed after `at` bytes of the input were read
ReadFailed(at) == [k |-> "read", name |-> "in.Read", c |-> NoConn, ok |-> FALSE, at |-> at]
Log(p, e) == trace' = [trace EXCEPT ![p] = Append(@, e)]

\* ------------------------------------------------------------- the pool
NewConn == [err |-> Nil, closes |-> 0]

\* getXrootdConnection: f.poolMu.Lock()
GetLock(p) ==
    /\ At(p, "getXrootdConnection", "lock")
    /\ poolMu = 0
    /\ poolMu' = p
    /\ Upd(p, [Cur(p) EXCEPT !.pc = "loop"])
    /\ UNCHANGED <<pool, sess, nsess, checkedOut, rv, crashed, trace, op, envVars>>

\* one turn of `for len(f.pool) > 0` that leaves the client it looked at in the pool
GetLoopKeepsInPool(p) ==
    /\ At(p, "getXrootdConnection", "loop")
    /\ poolMu = p
    /\ IF pool = <<>>
         THEN /\ Upd(p, [Cur(p) EXCEPT !.pc = "unlock"])
              /\ UNCHANGED <<pool, sess>>
         ELSE LET c == Head(pool)
              IN IF sess[c].err = Nil
                   THEN /\ pool' = pool
                        /\ Upd(p, [Cur(p) EXCEPT !.pc = "unlock", !.c = c])
                        /\ UNCHANGED sess
                   ELSE /\ pool' = Tail(pool)
                        /\ sess' = [sess EXCEPT ![c].closes = @ + 1]
                        /\ Upd(p, [Cur(p) EXCEPT !.c = NoConn])
    /\ UNCHANGED <<poolMu, nsess, checkedOut, rv, crashed, trace, op, envVars>>

GetLoopNeverReuses(p) ==
    /\ At(p, "getXrootdConnection", "loop")
    /\ poolMu = p
    /\ Upd(p, [Cur(p) EXCEPT !.pc = "unlock", !.c = NoConn])
    /\ UNCHANGED <<pool, sess>>
    /\ UNCHANGED <<poolMu, nsess, checkedOut, rv, crashed, trace, op, envVars>>

\* one turn of `for len(f.pool) > 0`: pop the front; keep it when it has no
\* recorded error, else close it and go on
GetLoop(p) ==
    /\ At(p, "getXrootdConnection", "loop")
    /\ poolMu = p
    /\ IF pool = <<>>
         THEN /\ Upd(p, [Cur(p) EXCEPT !.pc = "unlock"])
              /\ UNCHANGED <<pool, sess>>
         ELSE LET c == Head(pool)
              IN /\ pool' = Tail(pool)
                 /\ IF sess[c].err = Nil
                      THEN /\ Upd(p, [Cur(p) EXCEPT !.pc = "unlock", !.c = c])
                           /\ UNCHANGED sess
                      ELSE /\ sess' = [sess EXCEPT ![c].closes = @ + 1]
                           /\ Upd(p, [Cur(p) EXCEPT !.c = NoConn])
    /\ UNCHANGED <<poolMu, nsess, checkedOut, rv, crashed, trace, op, envVars>>

\* f.poolMu.Unlock(); an idle client was found: return it
GetUnlockReuse(p) ==
    /\ At(p, "getXrootdConnection", "unlock")
    /\ poolMu = p
    /\ Cur(p).c # NoConn
    /\ poolMu' = 0
    /\ checkedOut' = [checkedOut EXCEPT ![Cur(p).c] = @ + 1]
    /\ Log(p, Ev("reuse", "", Cur(p).c, TRUE))
    /\ Ret(p, Got(Cur(p).c, Nil))
    /\ UNCHANGED <<pool, sess, nsess, op, envVars>>

\* an acquire that dials whether or not the scan found an idle client
GetUnlockEmptyAlways(p) ==
    /\ At(p, "getXrootdConnection", "unlock")
    /\ poolMu = p
    /\ poolMu' = 0
    /\ Upd(p, [Cur(p) EXCEPT !.pc = "dial"])
    /\ UNCHANGED <<pool, sess, nsess, checkedOut, rv, crashed, trace, op, envVars>>

\* an acquire that goes on to dial without f.poolMu.Unlock()
GetUnlockEmptyKeepsLock(p) ==
    /\ At(p, "getXrootdConnection", "unlock")
    /\ poolMu = p
    /\ Cur(p).c = NoConn
    /\ Upd(p, [Cur(p) EXCEPT !.pc = "dial"])
    /\ UNCHANGED <<pool, poolMu, sess, nsess, checkedOut, rv, crashed, trace, op, envVars>>

\* an acquire that, finding the pool empty while Sessions exist, goes back to
\* wait for one of them to be released
GetUnlockEmptyWaits(p) ==
    /\ At(p, "getXrootdConnection", "unlock")
    /\ poolMu = p
    /\ Cur(p).c = NoConn
    /\ poolMu' = 0
    /\ Upd(p, [Cur(p) EXCEPT !.pc = IF nsess > 0 THEN "lock" ELSE "dial"])
    /\ UNCHANGED <<pool, sess, nsess, checkedOut, rv, crashed, trace, op, envVars>>

\* f.poolMu.Unlock(); the pool was exhausted: go on to dial
GetUnlockEmpty(p) ==
    /\ At(p, "getXrootdConnection", "unlock")
    /\ poolMu = p
    /\ Cur(p).c = NoConn
    /\ poolMu' = 0
    /\ Upd(p, [Cur(p) EXCEPT !.pc = "dial"])
    /\ UNCHANGED <<pool, sess, nsess, checkedOut, rv, crashed, trace, op, envVars>>

\* XrootdConnection: xrootd.NewClient succeeds
GetDialOk(p) ==
    /\ At(p, "getXrootdConnection", "dial")
    /\ nsess < MaxSessions
    /\ nsess' = nsess + 1
    /\ sess' = [sess EXCEPT ![nsess + 1] = NewConn]
    /\ checkedOut' = [checkedOut EXCEPT ![nsess + 1] = @ + 1]
    /\ Log(p, Ev("dial", "", nsess + 1, TRUE))
    /\ Ret(p, Got(nsess + 1, Nil))
    /\ UNCHANGED <<pool, poolMu, op, envVars>>

\* XrootdConnection: xrootd.NewClient fails
GetDialFail(p) ==
    /\ At(p, "getXrootdConnection", "dial")
    /\ Log(p, Ev("dial", "", NoConn, FALSE))
    /\ Ret(p, Got(NoConn, "dial"))
    /\ UNCHANGED <<poolVars, op, envVars>>

GetFrame == Frame("getXrootdConnection", "lock", NoConn, Nil, <<>>)
FreeFrame(c, err) == Frame("ConnectionFree", "seterr", c, err, <<>>)

\* ConnectionFree that records the error and still goes on to pool the client
FreeSetErrPoolsAnyway(p) ==
    /\ At(p, "ConnectionFree", "seterr")
    /\ LET f == Cur(p)
       IN IF f.c = NoConn
            THEN /\ Ret(p, PanicRes)
                 /\ UNCHANGED <<sess, checkedOut, trace>>
            ELSE /\ sess' = [sess EXCEPT ![f.c].err = f.err]
                 /\ Log(p, Ev("free", f.err, f.c, f.err = Nil))
                 /\ Upd(p, [f EXCEPT !.pc = "lock"])
                 /\ UNCHANGED <<rv, checkedOut, crashed>>
    /\ UNCHANGED <<pool, poolMu, nsess, op, envVars>>

\* ConnectionFree that closes a failed client and then pools it all the same
FreeSetErrClosesAndPools(p) ==
    /\ At(p, "ConnectionFree", "seterr")
    /\ LET f == Cur(p)
       IN IF f.c = NoConn
            THEN /\ Ret(p, PanicRes)
                 /\ UNCHANGED <<sess, checkedOut, trace>>
            ELSE /\ sess' = [sess EXCEPT ![f.c].err = f.err,
                                         ![f.c].closes = IF f.err # Nil THEN @ + 1 ELSE @]
                 /\ Log(p, Ev("free", f.err, f.c, f.err = Nil))
                 /\ Upd(p, [f EXCEPT !.pc = "lock"])
                 /\ UNCHANGED <<rv, checkedOut, crashed>>
    /\ UNCHANGED <<pool, poolMu, nsess, op, envVars>>

\* ConnectionFree: c.err = err; with an error, c.client.Close() and return
FreeSetErr(p) ==
    /\ At(p, "ConnectionFree", "seterr")
    /\ LET f == Cur(p)
       IN IF f.c = NoConn
            THEN \* c.err on a nil *conn: nil pointer dereference
                 /\ Ret(p, PanicRes)
                 /\ UNCHANGED <<sess, checkedOut, trace>>
            ELSE IF f.err # Nil
              THEN /\ sess' = [sess EXCEPT ![f.c].err = f.err, ![f.c].closes = @ + 1]
                   /\ checkedOut' = [checkedOut EXCEPT ![f.c] = @ - 1]
                   /\ Log(p, Ev("free", f.err, f.c, FALSE))
                   /\ Ret(p, NoRes)
              ELSE /\ sess' = [sess EXCEPT ![f.c].err = f.err]
                   /\ Log(p, Ev("free", f.err, f.c, TRUE))
                   /\ Upd(p, [f EXCEPT !.pc = "lock"])
                   /\ UNCHANGED <<rv, checkedOut, crashed>>
    /\ UNCHANGED <<pool, poolMu, nsess, op, envVars>>

\* ConnectionFree: f.poolMu.Lock()
FreeLock(p) ==
    /\ At(p, "ConnectionFree", "lock")
    /\ poolMu = 0
    /\ poolMu' = p
    /\ Upd(p, [Cur(p) EXCEPT !.pc = "append"])
    /\ UNCHANGED <<pool, sess, nsess, checkedOut, rv, crashed, trace, op, envVars>>

\* ConnectionFree that appends the client twice
FreeAppendTwice(p) ==
    /\ At(p, "ConnectionFree", "append")
    /\ poolMu = p
    /\ pool' = pool \o <<Cur(p).c, Cur(p).c>>
    /\ poolMu' = 0
    /\ checkedOut' = [checkedOut EXCEPT ![Cur(p).c] = @ - 1]
    /\ Ret(p, NoRes)
    /\ UNCHANGED <<sess, nsess, trace, op, envVars>>

\* ConnectionFree that puts the client at the front of f.pool
FreeAppendAtFront(p) ==
    /\ At(p, "ConnectionFree", "append")
    /\ poolMu = p
    /\ pool' = <<Cur(p).c>> \o pool
    /\ poolMu' = 0
    /\ checkedOut' = [checkedOut EXCEPT ![Cur(p).c] = @ - 1]
    /\ Ret(p, NoRes)
    /\ UNCHANGED <<sess, nsess, trace, op, envVars>>

\* ConnectionFree: f.pool = append(f.pool, c); f.poolMu.Unlock()
FreeAppend(p) ==
    /\ At(p, "ConnectionFree", "append")
    /\ poolMu = p
    /\ pool' = Append(pool, Cur(p).c)
    /\ poolMu' = 0
    /\ checkedOut' = [checkedOut EXCEPT ![Cur(p).c] = @ - 1]
    /\ Ret(p, NoRes)
    /\ UNCHANGED <<sess, nsess, trace, op, envVars>>

PoolStep(p) ==
    \/ GetLock(p) \/ GetLoop(p) \/ GetUnlockReuse(p) \/ GetUnlockEmpty(p)
    \/ GetDialOk(p) \/ GetDialFail(p)
    \/ FreeSetErr(p) \/ FreeLock(p) \/ FreeAppend(p)

\* ------------------------------------------------------------- a caller of the pool
\* The template every operation of the adapter follows: acquire a client, make
\* the remote call, and hand the client back together with the call's outcome.
UserAcquire(p) ==
    /\ ~crashed
    /\ Depth(p) = 0
    /\ stack' = [stack EXCEPT ![p] = <<Frame("user", "got", NoConn, Nil, <<>>), GetFrame>>]
    /\ trace' = [trace EXCEPT ![p] = <<>>]
    /\ op' = [op EXCEPT ![p] = [name |-> "user"]]
    /\ rv' = [rv EXCEPT ![p] = NoRes]
    /\ UNCHANGED <<poolVars, crashed, envVars>>

UserGot(p) ==
    /\ At(p, "user", "got")
    /\ IF rv[p].err # Nil
         THEN Ret(p, Res(rv[p].err, NoVal))
         ELSE /\ Upd(p, [Cur(p) EXCEPT !.pc = "use", !.c = rv[p].c])
              /\ UNCHANGED <<rv, crashed>>
    /\ UNCHANGED <<poolVars, trace, op, envVars>>

UserRelease(p, err) ==
    /\ At(p, "user", "use")
    /\ Call(p, [Cur(p) EXCEPT !.pc = "freed", !.err = err], FreeFrame(Cur(p).c, err))
    /\ UNCHANGED <<poolVars, rv, crashed, trace, op, envVars>>

UserDone(p) ==
    /\ At(p, "user", "freed")
    /\ Ret(p, Res(Cur(p).err, NoVal))
    /\ UNCHANGED <<poolVars, trace, op, envVars>>

\* ------------------------------------------------------------- the server
\* The name space of the xrootd server, as far as the adapter's calls can tell:
\* a root directory, two names in it, and one name in each of those.
Paths == {"/", "/d", "/e", "/d/o", "/e/o"}
Anc(q) ==
    CASE q = "/" -> {}
      [] q \in {"/d", "/e"} -> {"/"}
      [] q = "/d/o" -> {"/", "/d"}
      [] q = "/e/o" -> {"/", "/e"}
Desc(q) == {x \in Paths : q \in Anc(x)}
Dir(q) == CASE q = "/d/o" -> "/d" [] q = "/e/o" -> "/e" [] OTHER -> "/"

Absent == [kind |-> "none", data |-> <<>>]
DirNode == [kind |-> "dir", data |-> <<>>]
FileNode(d) == [kind |-> "file", data |-> d]
Exists(r, q) == r[q].kind # "none"
Children(r, q) == {x \in Paths : Dir(x) = q /\ x # q /\ Exists(r, x)}

Done(r, err) == [r |-> r, err |-> err]

\* MkdirAll / the MkPath open option: the path and every missing parent become directories
SrvMkdirAll(r, q) ==
    IF \E a \in Anc(q) \cup {q} : r[a].kind = "file"
      THEN Done(r, "exists")
      ELSE Done([x \in Paths |-> IF x \in Anc(q) \cup {q} THEN DirNode ELSE r[x]], Nil)

SrvRemoveDir(r, q) ==
    IF r[q].kind # "dir" THEN Done(r, "notexist")
    ELSE IF Children(r, q) # {} THEN Done(r, "notempty")
    ELSE Done([r EXCEPT ![q] = Absent], Nil)

SrvRemoveAll(r, q) ==
    IF ~Exists(r, q) THEN Done(r, "notexist")
    ELSE Done([x \in Paths |-> IF x = q \/ x \in Desc(q) THEN Absent ELSE r[x]], Nil)

SrvRemoveFile(r, q) ==
    IF r[q].kind # "file" THEN Done(r, "notexist")
    ELSE Done([r EXCEPT ![q] = Absent], Nil)

\* where the entry below src ends up when src is renamed to dst
Under(q) == IF q = "/d" THEN "/d/o" ELSE "/e/o"
SrvRename(r, src, dst) ==
    IF ~Exists(r, src) THEN Done(r, "notexist")
    ELSE IF Exists(r, dst) \/ \E a \in Anc(dst) : r[a].kind # "dir" \/ dst \in Desc(src)
      THEN Done(r, "exists")
    ELSE Done([x \in Paths |->
                  IF x = dst THEN r[src]
                  ELSE IF x \in Desc(dst)
                    THEN (IF Desc(src) # {} THEN r[Under(src)] ELSE Absent)
                  ELSE IF x = src \/ x \in Desc(src) THEN Absent
                  ELSE r[x]], Nil)

\* Open with OpenOptionsNew|OpenOptionsMkPath (fresh = TRUE) or
\* OpenOptionsMkPath|OpenOptionsDelete: an empty file at q
SrvOpenWrite(r, q, fresh) ==
    IF (fresh /\ Exists(r, q)) \/ r[q].kind = "dir" \/ \E a \in Anc(q) : r[a].kind = "file"
      THEN Done(r, "exists")
      ELSE Done([x \in Paths |-> IF x = q THEN FileNode(<<>>)
                                 ELSE IF x \in Anc(q) THEN DirNode ELSE r[x]], Nil)

StatInfo(r, q) == [isDir |-> r[q].kind = "dir", size |-> Len(r[q].data), modTime |-> "server"]

\* ------------------------------------------------------------- deferred calls
DeferFree(c, err) == [k |-> "free", c |-> c, err |-> err]
DeferClose(c) == [k |-> "fclose", c |-> c, err |-> Nil]

\* a frame that has returned runs its deferred calls, last registered first,
\* and then hands its result to its caller
RunDefer(p) ==
    /\ ~crashed
    /\ Depth(p) > 0
    /\ Cur(p).pc = "defer"
    /\ LET f == Cur(p)
           n == Len(f.defers)
           rest == [f EXCEPT !.defers = SubSeq(f.defers, 1, n - 1)]
       IN IF n = 0
            THEN Ret(p, f.res) /\ UNCHANGED trace
            ELSE IF f.defers[n].k = "free"
              THEN /\ Call(p, rest, FreeFrame(f.defers[n].c, f.defers[n].err))
                   /\ UNCHANGED <<rv, crashed, trace>>
              ELSE \* defer file.Close(ctx): its result is dropped
                   /\ \E ok \in BOOLEAN : Log(p, Ev("rpc", "deferred Close", f.defers[n].c, ok))
                   /\ Upd(p, rest)
                   /\ UNCHANGED <<rv, crashed>>
    /\ UNCHANGED <<poolVars, op, envVars>>

\* the number of top-level calls under way
Running == Cardinality({q \in Procs : Depth(q) > 0})

\* the calls as they are once p has started o: every call under way keeps, in
\* `running`, the largest number of calls that were under way together with it
Started(p, o) ==
    [q \in Procs |->
        IF q = p THEN o @@ [running |-> Running + 1]
        ELSE IF Depth(q) > 0 THEN [op[q] EXCEPT !.running = Running + 1]
        ELSE op[q]]

\* a top-level call: the goroutine is idle, and starts fn by acquiring a client
Start(p, o, frames) ==
    /\ ~crashed
    /\ Depth(p) = 0
    /\ ncalls < MaxCalls
    /\ ncalls' = ncalls + 1
    /\ op' = Started(p, o)
    /\ trace' = [trace EXCEPT ![p] = <<>>]
    /\ rv' = [rv EXCEPT ![p] = NoRes]
    /\ stack' = [stack EXCEPT ![p] = frames]

\* a top-level call that returns at once
Refuse(p, o, res) ==
    /\ ~crashed
    /\ Depth(p) = 0
    /\ ncalls < MaxCalls
    /\ ncalls' = ncalls + 1
    /\ op' = [op EXCEPT ![p] = o]
    /\ trace' = [trace EXCEPT ![p] = <<>>]
    /\ rv' = [rv EXCEPT ![p] = res]
    /\ UNCHANGED <<stack, crashed, poolVars, remote, obj, opt>>

\* the frame as it is once `c, errClient := f.getXrootdConnection(ctx)` has returned
\* and `defer f.ConnectionFree(c, errClient)` has run: the deferred call's arguments
\* are the values c and errClient have at the defer statement
Acquired(f, r) == [f EXCEPT !.c = r.c, !.err = r.err]
\* an operation that forgets the deferred release
WithFreeForgotten(f, c, err) == f
WithFree(f, c, err) == [f EXCEPT !.defers = Append(@, DeferFree(c, err))]

\* ------------------------------------------------------------- Mkdir
MkdirFrame(dir) == Frame("Mkdir", "got", NoConn, Nil, [path |-> dir])

CallMkdir(p, dir) ==
    /\ Start(p, [name |-> "Mkdir", path |-> dir], <<MkdirFrame(dir), GetFrame>>)
    /\ UNCHANGED <<crashed, poolVars, remote, obj, opt>>

\* `if err != nil` tests the path error, which is nil here, so a failed acquire
\* is not noticed: the deferred release gets (nil, errClient) and c.client is
\* used whatever c is
MkdirGot(p) ==
    /\ At(p, "Mkdir", "got")
    /\ LET f == WithFree(Acquired(Cur(p), rv[p]), rv[p].c, rv[p].err)
       IN IF f.c = NoConn
            THEN /\ Leave(p, f, PanicRes)
                 /\ UNCHANGED <<remote, trace>>
            ELSE \E ok \in BOOLEAN :
                   LET out == IF ok THEN SrvMkdirAll(remote, f.loc.path) ELSE Done(remote, "remote")
                   IN /\ remote' = out.r
                      /\ Log(p, Ev("rpc", "MkdirAll", f.c, out.err = Nil))
                      /\ Leave(p, [f EXCEPT !.err = out.err], Res(out.err, NoVal))
    /\ UNCHANGED <<poolVars, op, obj, opt, ncalls>>

\* ------------------------------------------------------------- List
ListFrame(dir) == Frame("List", "got", NoConn, Nil, [path |-> dir])

CallList(p, dir) ==
    /\ Start(p, [name |-> "List", path |-> dir], <<ListFrame(dir), GetFrame>>)
    /\ UNCHANGED <<crashed, poolVars, remote, obj, opt>>

\* fsx.Stat(ctx, path): any failure is reported as fs.ErrorDirNotFound
ListGot(p) ==
    /\ At(p, "List", "got")
    /\ IF rv[p].err # Nil
         THEN /\ Leave(p, Cur(p), Res(rv[p].err, NoVal))
              /\ UNCHANGED trace
         ELSE LET f == WithFree(Acquired(Cur(p), rv[p]), rv[p].c, rv[p].err)
              IN \E ok \in BOOLEAN :
                   IF ok /\ Exists(remote, f.loc.path)
                     THEN /\ Log(p, Ev("rpc", "Stat", f.c, TRUE))
                          /\ Upd(p, [f EXCEPT !.pc = "display"])
                          /\ UNCHANGED <<rv, crashed>>
                     ELSE /\ Log(p, Ev("rpc", "Stat", f.c, FALSE))
                          /\ Leave(p, [f EXCEPT !.err = "remote"], Res("DirNotFound", NoVal))
    /\ UNCHANGED <<poolVars, op, envVars>>

\* display: fsx.Dirlist(ctx, dirt) and one entry per child
ListDisplay(p) ==
    /\ At(p, "List", "display")
    /\ LET f == Cur(p)
       IN \E ok \in BOOLEAN :
            IF ok /\ remote[f.loc.path].kind = "dir"
              THEN /\ Log(p, Ev("rpc", "Dirlist", f.c, TRUE))
                   /\ Leave(p, f, Res(Nil, Children(remote, f.loc.path)))
              ELSE /\ Log(p, Ev("rpc", "Dirlist", f.c, FALSE))
                   /\ Leave(p, f, Res("could not list dir", NoVal))
    /\ UNCHANGED <<poolVars, op, envVars>>

\* ------------------------------------------------------------- Rmdir
CallRmdir(p, dir) ==
    /\ Start(p, [name |-> "Rmdir", path |-> dir],
             <<Frame("Rmdir", "listed", NoConn, Nil, [path |-> dir]), ListFrame(dir), GetFrame>>)
    /\ UNCHANGED <<crashed, poolVars, remote, obj, opt>>

\* Rmdir that goes on to remove the directory whatever the listing holds
RmdirListedNoCheck(p) ==
    /\ At(p, "Rmdir", "listed")
    /\ IF rv[p].err # Nil
         THEN Leave(p, Cur(p), Res(rv[p].err, NoVal))
         ELSE /\ Call(p, [Cur(p) EXCEPT !.pc = "got"], GetFrame)
              /\ UNCHANGED <<rv, crashed>>
    /\ UNCHANGED <<poolVars, trace, op, envVars>>

\* entries, err := f.List(ctx, dir): an error or a non-empty listing ends Rmdir
RmdirListed(p) ==
    /\ At(p, "Rmdir", "listed")
    /\ IF rv[p].err # Nil
         THEN Leave(p, Cur(p), Res(rv[p].err, NoVal))
         ELSE IF rv[p].val # {}
           THEN Leave(p, Cur(p), Res("DirectoryNotEmpty", NoVal))
           ELSE /\ Call(p, [Cur(p) EXCEPT !.pc = "got"], GetFrame)
                /\ UNCHANGED <<rv, crashed>>
    /\ UNCHANGED <<poolVars, trace, op, envVars>>

\* as in Mkdir, `if err != nil` tests the path error and not errClient
RmdirGot(p) ==
    /\ At(p, "Rmdir", "got")
    /\ LET f == WithFree(Acquired(Cur(p), rv[p]), rv[p].c, rv[p].err)
       IN IF f.c = NoConn
            THEN /\ Leave(p, f, PanicRes)
                 /\ UNCHANGED <<remote, trace>>
            ELSE \E ok \in BOOLEAN :
                   LET out == IF ok THEN SrvRemoveDir(remote, f.loc.path) ELSE Done(remote, "remote")
                   IN /\ remote' = out.r
                      /\ Log(p, Ev("rpc", "RemoveDir", f.c, out.err = Nil))
                      /\ Leave(p, [f EXCEPT !.err = out.err], Res(out.err, NoVal))
    /\ UNCHANGED <<poolVars, op, obj, opt, ncalls>>

\* ------------------------------------------------------------- Purge
CallPurge(p) ==
    /\ Start(p, [name |-> "Purge", path |-> "/"],
             <<Frame("Purge", "got", NoConn, Nil, [path |-> "/"]), GetFrame>>)
    /\ UNCHANGED <<crashed, poolVars, remote, obj, opt>>

\* as in Mkdir, `if err != nil` tests the path error and not errClient
PurgeGot(p) ==
    /\ At(p, "Purge", "got")
    /\ LET f == WithFree(Acquired(Cur(p), rv[p]), rv[p].c, rv[p].err)
       IN IF f.c = NoConn
            THEN /\ Leave(p, f, PanicRes)
                 /\ UNCHANGED <<remote, trace>>
            ELSE \E ok \in BOOLEAN :
                   LET out == IF ok THEN SrvRemoveAll(remote, f.loc.path) ELSE Done(remote, "remote")
                   IN /\ remote' = out.r
                      /\ Log(p, Ev("rpc", "RemoveAll", f.c, out.err = Nil))
                      /\ Leave(p, [f EXCEPT !.err = out.err], Res(out.err, NoVal))
    /\ UNCHANGED <<poolVars, op, obj, opt, ncalls>>

\* ------------------------------------------------------------- Remove
CallRemove(p, path) ==
    /\ Start(p, [name |-> "Remove", path |-> path],
             <<Frame("Remove", "got", NoConn, Nil, [path |-> path]), GetFrame>>)
    /\ UNCHANGED <<crashed, poolVars, remote, obj, opt>>

RemoveGot(p) ==
    /\ At(p, "Remove", "got")
    /\ IF rv[p].err # Nil
         THEN /\ Leave(p, Cur(p), Res(rv[p].err, NoVal))
              /\ UNCHANGED <<remote, trace>>
         ELSE LET f == WithFree(Acquired(Cur(p), rv[p]), rv[p].c, rv[p].err)
              IN \E ok \in BOOLEAN :
                   LET out == IF ok THEN SrvRemoveFile(remote, f.loc.path) ELSE Done(remote, "remote")
                   IN /\ remote' = out.r
                      /\ Log(p, Ev("rpc", "RemoveFile", f.c, out.err = Nil))
                      /\ Leave(p, [f EXCEPT !.err = out.err], Res(out.err, NoVal))
    /\ UNCHANGED <<poolVars, op, obj, opt, ncalls>>

\* ------------------------------------------------------------- Fs.stat, Object.stat, NewObject
StatFrame(path) == Frame("Fs.stat", "got", NoConn, Nil, [path |-> path])

\* Fs.stat: the release is deferred with a literal nil error
StatGot(p) ==
    /\ At(p, "Fs.stat", "got")
    /\ IF rv[p].err # Nil
         THEN /\ Leave(p, Cur(p), Res(rv[p].err, NoVal))
              /\ UNCHANGED trace
         ELSE LET f == WithFree(Acquired(Cur(p), rv[p]), rv[p].c, Nil)
              IN \E ok \in BOOLEAN :
                   IF ok /\ Exists(remote, f.loc.path)
                     THEN /\ Log(p, Ev("rpc", "Stat", f.c, TRUE))
                          /\ Leave(p, f, Res(Nil, StatInfo(remote, f.loc.path)))
                     ELSE /\ Log(p, Ev("rpc", "Stat", f.c, FALSE))
                          /\ Leave(p, [f EXCEPT !.err = "remote"],
                                   Res(IF ok THEN "notexist" ELSE "remote", NoVal))
    /\ UNCHANGED <<poolVars, op, envVars>>

\* Object.stat: what it returns for the result r of Fs.stat
ObjectStatErr(r) ==
    IF r.err # Nil THEN "ObjectNotFound"
    ELSE IF r.val.isDir THEN "NotAFile"
    ELSE Nil

\* setMetadata: size and modTime of the handle become those of the FileInfo
SetMetadata(o, info) == [o EXCEPT !.size = info.size, !.modTime = info.modTime]

CallNewObject(p, path) ==
    /\ Start(p, [name |-> "NewObject", path |-> path],
             <<Frame("NewObject", "stated", NoConn, Nil, [path |-> path]), StatFrame(path), GetFrame>>)
    /\ UNCHANGED <<crashed, poolVars, remote, obj, opt>>

NewObjectStated(p) ==
    /\ At(p, "NewObject", "stated")
    /\ LET e == ObjectStatErr(rv[p])
       IN /\ Leave(p, Cur(p), Res(e, NoVal))
          /\ obj' = IF e = Nil THEN [obj EXCEPT ![p] = SetMetadata(NoObj, rv[p].val)] ELSE obj
    /\ UNCHANGED <<poolVars, trace, op, remote, opt, ncalls>>

\* ------------------------------------------------------------- Move
\* (from: whose object src is: "this" Fs, or an "other" Fs of this backend)
CallMove(p, src, dst) ==
    /\ Start(p, [name |-> "Move", path |-> src, dst |-> dst, from |-> "this"],
             <<Frame("Move", "got", NoConn, Nil, [src |-> src, dst |-> dst]), GetFrame>>)
    /\ UNCHANGED <<crashed, poolVars, remote, obj, opt>>

\* src is an *Object of another Fs of this backend, one for a different server:
\* src.(*Object) succeeds, and the path part of srcObj.path() is renamed on the
\* server of f
CallMoveOtherFs(p, src, dst) ==
    /\ Start(p, [name |-> "Move", path |-> src, dst |-> dst, from |-> "other"],
             <<Frame("Move", "got", NoConn, Nil, [src |-> src, dst |-> dst]), GetFrame>>)
    /\ UNCHANGED <<crashed, poolVars, remote, obj, opt>>

\* src is not an *Object of this backend
CallMoveForeign(p, dst) ==
    /\ Refuse(p, [name |-> "Move", path |-> "foreign", dst |-> dst, from |-> "foreign"], Res("CantMove", NoVal))

\* a failed acquire returns errors.Wrap(err, ...) of the path error err, which
\* is nil: Wrap(nil) is nil.  Else Rename, and on success NewObject(remote).
MoveGot(p) ==
    /\ At(p, "Move", "got")
    /\ IF rv[p].err # Nil
         THEN /\ Leave(p, Cur(p), Res(Nil, NoVal))
              /\ UNCHANGED <<remote, trace>>
         ELSE LET f == WithFree(Acquired(Cur(p), rv[p]), rv[p].c, rv[p].err)
              IN \E ok \in BOOLEAN :
                   LET out == IF ok THEN SrvRename(remote, f.loc.src, f.loc.dst) ELSE Done(remote, "remote")
                   IN /\ remote' = out.r
                      /\ Log(p, Ev("rpc", "Rename", f.c, out.err = Nil))
                      /\ IF out.err # Nil
                           THEN Leave(p, [f EXCEPT !.err = out.err], Res(out.err, NoVal))
                           ELSE /\ stack' = [stack EXCEPT ![p] =
                                      Below(p) \o <<[f EXCEPT !.pc = "stated"], StatFrame(f.loc.dst), GetFrame>>]
                                /\ UNCHANGED <<rv, crashed>>
    /\ UNCHANGED <<poolVars, op, obj, opt, ncalls>>

MoveStated(p) ==
    /\ At(p, "Move", "stated")
    /\ Leave(p, Cur(p), Res(ObjectStatErr(rv[p]), NoVal))
    /\ UNCHANGED <<poolVars, trace, op, envVars>>

\* ------------------------------------------------------------- dirExists, DirMove
DirExistsFrame(path) == Frame("dirExists", "got", NoConn, Nil, [path |-> path])

\* the value is the bool dirExists returns
DirExistsGot(p) ==
    /\ At(p, "dirExists", "got")
    /\ IF rv[p].err # Nil
         THEN /\ Leave(p, Cur(p), Res(rv[p].err, FALSE))
              /\ UNCHANGED trace
         ELSE LET f == WithFree(Acquired(Cur(p), rv[p]), rv[p].c, rv[p].err)
              IN \E ok \in BOOLEAN :
                   IF ok /\ Exists(remote, f.loc.path)
                     THEN /\ Log(p, Ev("rpc", "Stat", f.c, TRUE))
                          /\ IF remote[f.loc.path].kind = "dir"
                               THEN Leave(p, f, Res(Nil, TRUE))
                               ELSE Leave(p, f, Res("IsFile", FALSE))
                     ELSE /\ Log(p, Ev("rpc", "Stat", f.c, FALSE))
                          /\ \E isNotExist \in BOOLEAN :
                               Leave(p, [f EXCEPT !.err = "remote"],
                                     Res(IF ok /\ isNotExist THEN Nil ELSE "remote", FALSE))
    /\ UNCHANGED <<poolVars, op, envVars>>

CallDirMove(p, src, dst) ==
    /\ Start(p, [name |-> "DirMove", path |-> src, dst |-> dst, dstExists |-> Exists(remote, dst)],
             <<Frame("DirMove", "checked", NoConn, Nil, [src |-> src, dst |-> dst]),
               DirExistsFrame(dst), GetFrame>>)
    /\ UNCHANGED <<crashed, poolVars, remote, obj, opt>>

\* src is not an *Fs of this backend
CallDirMoveForeign(p, dst) ==
    /\ Refuse(p, [name |-> "DirMove", path |-> "foreign", dst |-> dst, dstExists |-> Exists(remote, dst)],
              Res("CantDirMove", NoVal))

\* ok, err = f.dirExists(ctx, path): only ok is looked at
DirMoveChecked(p) ==
    /\ At(p, "DirMove", "checked")
    /\ IF rv[p].val = TRUE
         THEN Leave(p, Cur(p), Res("DirExists", NoVal))
         ELSE /\ Call(p, [Cur(p) EXCEPT !.pc = "got"], GetFrame)
              /\ UNCHANGED <<rv, crashed>>
    /\ UNCHANGED <<poolVars, trace, op, envVars>>

\* err = MkdirAll(parent): the result goes to err, and errClient (nil) is tested
DirMoveGot(p) ==
    /\ At(p, "DirMove", "got")
    /\ IF rv[p].err # Nil
         THEN /\ Leave(p, Cur(p), Res(rv[p].err, NoVal))
              /\ UNCHANGED <<remote, trace>>
         ELSE LET f == WithFree(Acquired(Cur(p), rv[p]), rv[p].c, rv[p].err)
              IN \E ok \in BOOLEAN :
                   LET out == IF ok THEN SrvMkdirAll(remote, Dir(f.loc.dst)) ELSE Done(remote, "remote")
                   IN /\ remote' = out.r
                      /\ Log(p, Ev("rpc", "MkdirAll", f.c, out.err = Nil))
                      /\ Upd(p, [f EXCEPT !.pc = "rename"])
                      /\ UNCHANGED <<rv, crashed>>
    /\ UNCHANGED <<poolVars, op, obj, opt, ncalls>>

DirMoveRename(p) ==
    /\ At(p, "DirMove", "rename")
    /\ LET f == Cur(p)
       IN \E ok \in BOOLEAN :
            LET out == IF ok THEN SrvRename(remote, f.loc.src, f.loc.dst) ELSE Done(remote, "remote")
            IN /\ remote' = out.r
               /\ Log(p, Ev("rpc", "Rename", f.c, out.err = Nil))
               /\ Leave(p, [f EXCEPT !.err = out.err], Res(out.err, NoVal))
    /\ UNCHANGED <<poolVars, op, obj, opt, ncalls>>


\* ------------------------------------------------------------- bytes and text
Min(a, b) == IF a < b THEN a ELSE b
Max(a, b) == IF a > b THEN a ELSE b

\* hash/adler32: the running sums a and b modulo 65521, digest b<<16 | a
\* (kept as its two 16-bit halves)
RECURSIVE AdlerAB(_, _, _)
AdlerAB(bs, a, b) ==
    IF bs = <<>> THEN [hi |-> b, lo |-> a]
    ELSE LET a2 == (a + Head(bs)) % 65521
         IN AdlerAB(Tail(bs), a2, (b + a2) % 65521)
Adler32(bs) == AdlerAB(bs, 1, 0)

HexChars == <<"0", "1", "2", "3", "4", "5", "6", "7", "8", "9", "a", "b", "c", "d", "e", "f">>
\* the digest as the server prints it: 8 hex digits
Hex4(n) == [i \in 1..4 |-> HexChars[((n \div (16 ^ (4 - i))) % 16) + 1]]
Hex8(d) == Hex4(d.hi) \o Hex4(d.lo)

\* strings.Split(s, sep) for a one-character separator
RECURSIVE Split(_, _)
Split(s, sep) ==
    LET at == {i \in 1..Len(s) : s[i] = sep}
    IN IF at = {} THEN <<s>>
       ELSE LET i == CHOOSE i \in at : \A j \in at : i <= j
            IN <<SubSeq(s, 1, i - 1)>> \o Split(SubSeq(s, i + 1, Len(s)), sep)

AdlerName == <<"a", "d", "l", "e", "r", "3", "2">>
\* what the server answers to a checksum query for a file holding data
ChecksumResponses(data) ==
    { AdlerName \o <<" ">> \o Hex8(Adler32(data)) \o <<"NUL">>,
      <<"m", "d", "5", " ">> \o Hex8(Adler32(data)) \o <<"NUL">>,
      AdlerName \o <<" ">> \o SubSeq(Hex8(Adler32(data)), 1, 4) \o <<"NUL">>,
      AdlerName }

\* the bytes of a file after WriteAt(chunk, off)
WriteAtData(d, chunk, off) ==
    [i \in 1..Max(Len(d), off + Len(chunk)) |->
        IF i > off /\ i <= off + Len(chunk) THEN chunk[i - off]
        ELSE IF i <= Len(d) THEN d[i] ELSE 0]

\* the inputs of Update: every byte sequence up to MaxLen, and one sequence
\* of each of the lengths around the buffer size and of ten buffers
SeqsUpTo(S, n) == UNION {[1..k -> S] : k \in 0..n}
Ramp(n) == [i \in 1..n |-> i % 256]
Inputs == SeqsUpTo(0..MaxByte, MaxLen) \cup {Ramp(n) : n \in {BufSize - 1, BufSize, BufSize + 1, 10 * BufSize}}

\* ------------------------------------------------------------- Update
ObjPath == "/d/o"

UpdateFrame(path, input) ==
    Frame("Update", "got", NoConn, Nil,
          [path |-> path, rest |-> input, index |-> 0, turn |-> 0, zeros |-> 0,
           fileExists |-> FALSE, fail |-> Nil])

\* an Update that leaves o.hash as it was
CallUpdateKeepsHash(p, input) ==
    /\ Start(p, [name |-> "Update", path |-> ObjPath, input |-> input,
                 hadHash |-> obj[p].hash # <<>>],
             <<UpdateFrame(ObjPath, input), GetFrame>>)
    /\ UNCHANGED <<crashed, poolVars, remote, obj, opt>>

\* o.hash = ""; the path; getXrootdConnection.  hadHash: the handle had a hash
\* cached when the call was made
CallUpdate(p, input) ==
    /\ Start(p, [name |-> "Update", path |-> ObjPath, input |-> input,
                 hadHash |-> obj[p].hash # <<>>],
             <<UpdateFrame(ObjPath, input), GetFrame>>)
    /\ obj' = [obj EXCEPT ![p].hash = <<>>]
    /\ UNCHANGED <<crashed, poolVars, remote, opt>>

\* the probe: info, err := c.client.FS().Stat(ctx, path)
UpdateGot(p) ==
    /\ At(p, "Update", "got")
    /\ IF rv[p].err # Nil
         THEN /\ Leave(p, Cur(p), Res(rv[p].err, NoVal))
              /\ UNCHANGED trace
         ELSE LET f == WithFree(Acquired(Cur(p), rv[p]), rv[p].c, rv[p].err)
              IN \E ok \in BOOLEAN :
                   /\ Log(p, Ev("rpc", "Stat", f.c, ok /\ Exists(remote, f.loc.path)))
                   /\ Upd(p, [f EXCEPT !.pc = "open",
                                       !.loc.fileExists = (ok /\ remote[f.loc.path].kind = "file")])
                   /\ UNCHANGED <<rv, crashed>>
    /\ UNCHANGED <<poolVars, op, envVars>>

\* an Update that always opens in create-new mode
OpenModeAlwaysNew(fileExists) == "OpenNew"

\* if !fileExists: OpenOptionsNew|OpenOptionsMkPath, else
\* OpenOptionsMkPath|OpenOptionsDelete
OpenMode(fileExists) == IF fileExists THEN "OpenDelete" ELSE "OpenNew"

\* Open in create-new mode, or in delete mode when the probe found a file;
\* then defer file.Close(ctx)
UpdateOpen(p) ==
    /\ At(p, "Update", "open")
    /\ LET f == Cur(p)
       IN \E ok \in BOOLEAN :
            LET out == IF ok THEN SrvOpenWrite(remote, f.loc.path, OpenMode(f.loc.fileExists) = "OpenNew")
                       ELSE Done(remote, "remote")
            IN /\ remote' = out.r
               /\ Log(p, Ev("rpc", OpenMode(f.loc.fileExists), f.c, out.err = Nil))
               /\ IF out.err # Nil
                    THEN Leave(p, [f EXCEPT !.err = out.err], Res(out.err, NoVal))
                    ELSE /\ Upd(p, [f EXCEPT !.pc = "loop", !.defers = Append(@, DeferClose(f.c))])
                         /\ UNCHANGED <<rv, crashed>>
    /\ UNCHANGED <<poolVars, op, obj, opt, ncalls>>

\* the remove closure
RemoveClosureFrame(path) == Frame("Update.remove", "got", NoConn, Nil, [path |-> path])

\* the locals of the copy loop, which nothing reads once the loop has ended
LoopOver(f) == [f EXCEPT !.loc.rest = <<>>, !.loc.index = 0, !.loc.turn = 0, !.loc.zeros = 0]

\* an Update that returns its failure without calling remove()
CleanupForgotten(p, f, e) ==
    stack' = [stack EXCEPT ![p] =
                 Below(p) \o <<[LoopOver(f) EXCEPT !.pc = "removed", !.loc.fail = e]>>]

\* remove(); return: Update has failed with error e after the file was opened
Cleanup(p, f, e) ==
    stack' = [stack EXCEPT ![p] =
                 Below(p) \o <<[LoopOver(f) EXCEPT !.pc = "removed", !.loc.fail = e],
                               RemoveClosureFrame(f.loc.path), GetFrame>>]

\* an index that moves on by the size of the buffer, not by the bytes read
NextIndexByBuffer(index, n) == index + BufSize

\* a copy loop that writes every chunk at the offset of the first
NextIndexStuck(index, n) == index
\* index += int64(n)
NextIndex(index, n) == index + n

\* a turn count that counts only the chunks that held data
NextTurnOnData(turn, n) == IF n > 0 THEN turn + 1 ELSE turn

\* turn += 1
NextTurn(turn, n) == turn + 1

\* a copy loop that ends after its first chunk
AfterTurnStops(rerr) == "close"

\* if err_read == io.EOF { break }: where a turn without an error leads
AfterTurn(rerr) == IF rerr = "EOF" THEN "close" ELSE "loop"

\* one turn of the copy loop: in.Read(data), file.WriteAt(data[:n], index).
\* turn counts the chunk writes that succeeded.
UpdateLoop(p) ==
    /\ At(p, "Update", "loop")
    /\ LET f == Cur(p)
           l == f.loc
       IN \E n \in 0..Min(BufSize, Len(l.rest)), rerr \in {Nil, "EOF", "read"} :
            /\ rerr = "EOF" => n = Len(l.rest)
            /\ rerr = "read" => n = 0    \* bytes that come with an error are dropped
            /\ (n = 0 /\ rerr = Nil) => l.zeros < MaxZeroReads
            /\ LET f1 == [f EXCEPT !.loc.zeros = IF n = 0 /\ rerr = Nil THEN @ + 1 ELSE @]
               IN IF rerr = "read"
                    THEN /\ Cleanup(p, [f1 EXCEPT !.err = "read"], "read")
                         /\ Log(p, ReadFailed(l.index))
                         /\ UNCHANGED remote
                    ELSE \E wok \in BOOLEAN :
                           LET good == wok /\ remote[l.path].kind = "file"
                               f2 == [f1 EXCEPT !.loc.rest = SubSeq(l.rest, n + 1, Len(l.rest)),
                                                !.loc.index = NextIndex(@, n),
                                                !.loc.turn = NextTurn(@, n),
                                                !.pc = AfterTurn(rerr)]
                           IN IF good
                                   THEN /\ remote' = [remote EXCEPT ![l.path].data =
                                              WriteAtData(@, SubSeq(l.rest, 1, n), l.index)]
                                        /\ Upd(p, f2)
                                        /\ UNCHANGED trace
                                   ELSE /\ Cleanup(p, [f1 EXCEPT !.err = "write"], "write")
                                        /\ Log(p, Ev("rpc", "WriteAt", f.c, FALSE))
                                        /\ UNCHANGED remote
    /\ UNCHANGED <<poolVars, rv, crashed, op, obj, opt, ncalls>>

\* the remove closure, once it has tried to acquire a client of its own
UpdateRemoveGot(p) ==
    /\ At(p, "Update.remove", "got")
    /\ IF rv[p].err # Nil
         THEN /\ Leave(p, Cur(p), NoRes)
              /\ UNCHANGED <<remote, trace>>
         ELSE LET f == WithFree(Acquired(Cur(p), rv[p]), rv[p].c, rv[p].err)
              IN \E ok \in BOOLEAN :
                   LET out == IF ok THEN SrvRemoveFile(remote, f.loc.path) ELSE Done(remote, "remote")
                   IN /\ remote' = out.r
                      /\ Log(p, Ev("rpc", "RemoveFile", f.c, out.err = Nil))
                      /\ Leave(p, [f EXCEPT !.err = out.err], NoRes)
    /\ UNCHANGED <<poolVars, op, obj, opt, ncalls>>

\* Update that reports what became of the cleanup instead of its own failure
UpdateRemovedReportsCleanup(p) ==
    /\ At(p, "Update", "removed")
    /\ Leave(p, Cur(p), Res(IF Exists(remote, Cur(p).loc.path) THEN "cleanup" ELSE Nil, NoVal))
    /\ UNCHANGED <<poolVars, trace, op, envVars>>

\* after remove(): return errClient, or the wrapped error of file.Close
UpdateRemoved(p) ==
    /\ At(p, "Update", "removed")
    /\ Leave(p, Cur(p), Res(Cur(p).loc.fail, NoVal))
    /\ UNCHANGED <<poolVars, trace, op, envVars>>

\* err = file.Close(ctx); then o.SetModTime: o.modTime = modTime and o.stat
UpdateClose(p) ==
    /\ At(p, "Update", "close")
    /\ LET f == Cur(p)
       IN \E ok \in BOOLEAN :
            /\ Log(p, Ev("rpc", "Close", f.c, ok))
            /\ IF ok
                 THEN /\ stack' = [stack EXCEPT ![p] =
                            Below(p) \o <<[LoopOver(f) EXCEPT !.pc = "finalize"], StatFrame(f.loc.path), GetFrame>>]
                      /\ obj' = [obj EXCEPT ![p].modTime = "src"]
                 ELSE /\ Cleanup(p, f, "close")
                      /\ UNCHANGED obj
    /\ UNCHANGED <<poolVars, rv, crashed, op, remote, opt, ncalls>>

\* SetModTime once o.stat has returned
UpdateFinalize(p) ==
    /\ At(p, "Update", "finalize")
    /\ LET e == ObjectStatErr(rv[p])
       IN /\ Leave(p, Cur(p), Res(e, NoVal))
          /\ obj' = IF e = Nil THEN [obj EXCEPT ![p] = SetMetadata(@, rv[p].val)] ELSE obj
    /\ UNCHANGED <<poolVars, trace, op, remote, opt, ncalls>>

\* ------------------------------------------------------------- Hash
\* the bytes stored by the Update a call follows, when the call before it was
\* an Update that succeeded (else the empty set)
Uploaded(p) ==
    IF op[p].name = "Update" /\ Depth(p) = 0 /\ rv[p].err = Nil /\ ~rv[p].panic
      THEN {op[p].input} ELSE {}

CallHash(p, t) ==
    /\ opt.HashChosen # "none"
    /\ t = "adler32"
    /\ Start(p, [name |-> "Hash", path |-> ObjPath, t |-> t, after |-> Uploaded(p)],
             <<Frame("Hash", "got", NoConn, Nil, [path |-> ObjPath, t |-> t]), GetFrame>>)
    /\ UNCHANGED <<crashed, poolVars, remote, obj, opt>>

\* a Hash that looks at the type asked for before it looks at hash_chosen
CallHashRefusedTypeFirst(p, t) ==
    /\ opt.HashChosen = "none" \/ t # "adler32"
    /\ Refuse(p, [name |-> "Hash", path |-> ObjPath, t |-> t, after |-> Uploaded(p)],
              Res(IF t # "adler32" THEN "ErrUnsupported" ELSE Nil, <<>>))

\* hashing is switched off, or the type asked for is not Adler32HashType
CallHashRefused(p, t) ==
    /\ opt.HashChosen = "none" \/ t # "adler32"
    /\ Refuse(p, [name |-> "Hash", path |-> ObjPath, t |-> t, after |-> Uploaded(p)],
              Res(IF opt.HashChosen = "none" THEN Nil ELSE "ErrUnsupported", <<>>))

\* the Checksum request was answered with data
Answered(c, data) == [k |-> "rpc", name |-> "Checksum", c |-> c, ok |-> TRUE, data |-> data]

\* stringdata[1] is read of a response that has no second field: the index is
\* out of range
HashPanics(data, t) ==
    LET stringdata == Split(data, " ")
    IN stringdata[1] = AdlerName /\ t = "adler32" /\ Len(stringdata) < 2

\* o.hash after the response data has been looked at
ParsedHash(old, data, t) ==
    LET stringdata == Split(data, " ")
    IN IF stringdata[1] = AdlerName /\ t = "adler32"
         THEN LET h == Split(stringdata[2], "NUL")[1]
              IN IF Len(h) = 8 THEN h ELSE old
         ELSE old

\* c.client.Send(ctx, &resp, &req), and the response parsed
HashGot(p) ==
    /\ At(p, "Hash", "got")
    /\ IF rv[p].err # Nil
         THEN /\ Leave(p, Cur(p), Res(rv[p].err, <<>>))
              /\ UNCHANGED <<trace, obj>>
         ELSE LET f == WithFree(Acquired(Cur(p), rv[p]), rv[p].c, rv[p].err)
              IN \E ok \in BOOLEAN :
                   IF ok /\ remote[f.loc.path].kind = "file"
                     THEN \E data \in ChecksumResponses(remote[f.loc.path].data) :
                            /\ Log(p, Answered(f.c, data))
                            /\ IF HashPanics(data, f.loc.t)
                                 THEN /\ Leave(p, f, PanicRes)
                                      /\ UNCHANGED obj
                                 ELSE LET h == ParsedHash(obj[p].hash, data, f.loc.t)
                                      IN /\ obj' = [obj EXCEPT ![p].hash = h]
                                         /\ Leave(p, f, Res(Nil, h))
                     ELSE /\ Log(p, Ev("rpc", "Checksum", f.c, FALSE))
                          /\ Leave(p, [f EXCEPT !.err = "remote"], Res("remote", <<>>))
                          /\ UNCHANGED obj
    /\ UNCHANGED <<poolVars, op, remote, opt, ncalls>>

\* ------------------------------------------------------------- Open, Read, Close
CallOpen(p) ==
    /\ Start(p, [name |-> "Open", path |-> ObjPath, after |-> Uploaded(p)],
             <<Frame("Open", "open", NoConn, Nil,
                     [path |-> ObjPath, bytes |-> 0, eof |-> FALSE, got |-> <<>>, fail |-> Nil])>>)
    /\ UNCHANGED <<crashed, poolVars, remote, obj, opt>>

\* xrdio.Open(o.path()): a connection of its own, not one of the pool
OpenDial(p) ==
    /\ At(p, "Open", "open")
    /\ \E ok \in BOOLEAN :
         /\ Log(p, Ev("rpc", "xrdio.Open", NoConn, ok /\ remote[Cur(p).loc.path].kind = "file"))
         /\ IF ok /\ remote[Cur(p).loc.path].kind = "file"
              THEN Upd(p, [Cur(p) EXCEPT !.pc = "read"]) /\ UNCHANGED <<rv, crashed>>
              ELSE Leave(p, Cur(p), Res("Open failed", NoVal))
    /\ UNCHANGED <<poolVars, op, envVars>>

\* xrdOpenFile.Read: the next bytes of the file, io.EOF at its end, or an error
ReaderRead(p) ==
    /\ At(p, "Open", "read")
    /\ LET f == Cur(p)
           data == remote[f.loc.path].data
           left == Len(data) - f.loc.bytes
       IN \E ok \in BOOLEAN :
            IF ~ok \/ remote[f.loc.path].kind # "file"
              THEN Upd(p, [f EXCEPT !.pc = "close", !.loc.fail = "read"])
              ELSE IF left <= 0
                THEN Upd(p, [f EXCEPT !.pc = "close", !.loc.eof = TRUE])
                ELSE \E n \in 1..Min(BufSize, left) :
                       Upd(p, [f EXCEPT !.loc.bytes = @ + n,
                                        !.loc.got = @ \o SubSeq(data, f.loc.bytes + 1, f.loc.bytes + n)])
    /\ UNCHANGED <<poolVars, rv, crashed, trace, op, envVars>>

\* xrdOpenFile.Close: a length mismatch is logged, not returned; `closed` is
\* what Close itself returns, the error of file.xrdfile.Close() or nil
ReaderClose(p) ==
    /\ At(p, "Open", "close")
    /\ LET f == Cur(p)
       IN \E ok \in BOOLEAN :
            /\ Log(p, Ev("rpc", "xrdfile.Close", NoConn, ok))
            /\ Leave(p, f, Res(IF f.loc.fail # Nil THEN f.loc.fail ELSE IF ok THEN Nil ELSE "close",
                               [data |-> f.loc.got, eof |-> f.loc.eof, bytes |-> f.loc.bytes,
                                closed |-> IF ok THEN Nil ELSE "close"]))
    /\ UNCHANGED <<poolVars, op, envVars>>

InitCommon ==
    /\ pool = <<>>
    /\ poolMu = 0
    /\ sess = [s \in Sessions |-> NewConn]
    /\ nsess = 0
    /\ stack = [p \in Procs |-> <<>>]
    /\ rv = [p \in Procs |-> NoRes]
    /\ checkedOut = [s \in Sessions |-> 0]
    /\ crashed = FALSE
    /\ trace = [p \in Procs |-> <<>>]
    /\ op = [p \in Procs |-> NoOp]
    /\ obj = [p \in Procs |-> NoObj]
    /\ ncalls = 0

InitPool ==
    /\ InitCommon
    /\ remote = [q \in Paths |-> IF q = "/" THEN DirNode ELSE Absent]
    /\ opt = [HashChosen |-> "adler32"]

NextPool ==
    \E p \in Procs :
        \/ PoolStep(p)
        \/ UserAcquire(p) \/ UserGot(p) \/ UserDone(p)
        \/ \E err \in {Nil, "remote"} : UserRelease(p, err)

SpecPool == InitPool /\ [][NextPool]_vars

InPool(s) == \E i \in 1..Len(pool) : pool[i] = s
Reused(p) == \E i \in 1..Len(trace[p]) : trace[p][i].k = "reuse"

\* caller p has been handed s and its release of s has not ended
Holding(p, s) ==
    /\ Depth(p) > 0
    /\ stack[p][1].fn = "user"
    /\ stack[p][1].c = s
    /\ stack[p][1].pc = "use" \/ (stack[p][1].pc = "freed" /\ Depth(p) > 1)

\* C1: with every acquired Session released exactly once, no Session is checked
\* out by two operations at the same time: between an acquire that returned s
\* and the matching release of s, no other acquire returns s.
NoSessionSharedByTwoCallers ==
    \A s \in Sessions :
        /\ checkedOut[s] <= 1
        /\ \A p, q \in Procs : (Holding(p, s) /\ Holding(q, s)) => p = q

\* two callers hold a Session each at the same time, one of them a Session
\* that was released before and taken from the pool
TwoCallersHoldSessions ==
    \E p, q \in Procs :
        /\ p # q
        /\ At(p, "user", "use") /\ At(q, "user", "use")
        /\ Reused(p)
        /\ Holding(p, stack[p][1].c) /\ Holding(q, stack[q][1].c)

\* C2: every Session in f.pool has err == nil; a Session passed to
\* ConnectionFree with a non-nil error is never appended to f.pool and is never
\* returned by a later getXrootdConnection.
PoolHoldsNoFailedSession ==
    /\ \A i \in 1..Len(pool) : sess[pool[i]].err = Nil
    /\ \A s \in Sessions :
          sess[s].err # Nil =>
              /\ ~InPool(s)
              /\ checkedOut[s] = 0
              /\ \A p \in Procs : \A i \in 1..Depth(p) :
                    stack[p][i].fn = "getXrootdConnection" => stack[p][i].c # s

\* a Session was released with an error and closed, and afterwards a caller
\* was handed a Session from the pool
FailedSessionThenReuse ==
    \E s \in Sessions, p \in Procs :
        /\ sess[s].err # Nil /\ sess[s].closes > 0
        /\ At(p, "user", "use") /\ Reused(p)
        /\ pool # <<>>

\* p takes a step / p is in fn at pc after the step
Steps_(p) == stack'[p] # stack[p]
AtNext(p, fn, pc) ==
    /\ stack'[p] # <<>>
    /\ stack'[p][Len(stack'[p])].fn = fn
    /\ stack'[p][Len(stack'[p])].pc = pc

\* C13: getXrootdConnection returns an idle Session without dialing whenever
\* the idle collection holds a Session with no recorded error; it calls the
\* session factory if and only if the scan has exhausted the collection
\* without finding one.
AcquireDialsOnlyWhenExhausted ==
    [][\A p \in Procs :
          /\ (At(p, "getXrootdConnection", "loop") /\ Steps_(p)
                 /\ pool # <<>> /\ sess[Head(pool)].err = Nil)
                => (/\ AtNext(p, "getXrootdConnection", "unlock")
                    /\ stack'[p][Len(stack'[p])].c = Head(pool))
          /\ (At(p, "getXrootdConnection", "unlock") /\ Steps_(p) /\ Cur(p).c # NoConn)
                => (/\ rv'[p] = Got(Cur(p).c, Nil)
                    /\ stack'[p] = Below(p)
                    /\ nsess' = nsess)
          /\ (At(p, "getXrootdConnection", "unlock") /\ Steps_(p) /\ Cur(p).c = NoConn)
                => (pool = <<>> /\ AtNext(p, "getXrootdConnection", "dial"))
          /\ (~At(p, "getXrootdConnection", "dial") /\ AtNext(p, "getXrootdConnection", "dial"))
                => (pool = <<>> /\ Cur(p).c = NoConn)
          /\ nsess' # nsess => \E q \in Procs : At(q, "getXrootdConnection", "dial")
      ]_vars

\* one caller holds a Session it took from the pool while another, which found
\* the pool empty, is about to dial
ReuseBesideDial ==
    \E p, q \in Procs :
        /\ At(p, "user", "use") /\ Reused(p)
        /\ At(q, "getXrootdConnection", "dial")

\* C15: poolMu is never held while a network call is made: a thread that
\* holds poolMu performs only the pop or the push on the idle collection,
\* never a dial, a remote operation or a client Close.
LockHeldOnlyForPoolAccess ==
    /\ [](\A p \in Procs : poolMu = p =>
              \/ At(p, "getXrootdConnection", "loop")
              \/ At(p, "getXrootdConnection", "unlock")
              \/ At(p, "ConnectionFree", "append"))
    /\ [][\A p \in Procs : (poolMu = p /\ Steps_(p)) =>
              /\ nsess' = nsess
              /\ \A s \in Sessions : sess'[s].closes = sess[s].closes
              /\ \/ trace'[p] = trace[p]
                 \/ /\ Len(trace'[p]) = Len(trace[p]) + 1
                    /\ trace'[p][Len(trace'[p])].k = "reuse"
          ]_vars

\* one caller holds poolMu while another is dialing
LockHeldBesideDial ==
    \E p, q \in Procs :
        /\ poolMu = p
        /\ At(q, "getXrootdConnection", "dial")

\* C18: a Session with a recorded error is closed exactly once over its
\* lifetime: ConnectionFree with a non-nil error closes the client once, and no
\* later acquire, release or discard closes it again.
FailedSessionClosedOnce ==
    \A s \in Sessions : sess[s].closes = (IF sess[s].err # Nil THEN 1 ELSE 0)

\* a Session was closed on a failed release, and every Session the factory
\* can make has been made and released since
FailedSessionLongClosed ==
    /\ \E s \in Sessions : sess[s].err # Nil /\ sess[s].closes = 1
    /\ nsess = MaxSessions
    /\ \A p \in Procs : Depth(p) = 0

\* C19: the idle collection is first-in first-out: a release with a nil error
\* appends at the tail, an acquire removes from the front, so that it returns
\* the idle Session released earliest, and the order of the others is kept.
PoolIsFifo ==
    [][/\ Len(pool') > Len(pool) =>
             \E p \in Procs : /\ At(p, "ConnectionFree", "append")
                               /\ sess[Cur(p).c].err = Nil
                               /\ pool' = Append(pool, Cur(p).c)
       /\ Len(pool') < Len(pool) =>
             \E p \in Procs : /\ At(p, "getXrootdConnection", "loop")
                               /\ pool' = Tail(pool)
                               /\ sess[Head(pool)].err = Nil =>
                                      (/\ AtNext(p, "getXrootdConnection", "unlock")
                                       /\ stack'[p][Len(stack'[p])].c = Head(pool))
       /\ Len(pool') = Len(pool) => pool' = pool
      ]_vars

\* an acquire has taken the Session at the front of an idle collection that
\* held more than one
FrontTakenOthersKept ==
    \E p \in Procs :
        /\ At(p, "getXrootdConnection", "unlock")
        /\ Cur(p).c # NoConn
        /\ pool # <<>>

\* ------------------------------------------------------------- the adapter, one caller
\* One goroutine calls the operations of the adapter one after another, on a
\* server that holds only the root directory at first.
Main == CHOOSE p \in Procs : \A q \in Procs : p <= q
ShortInputs == {<<>>, <<1>>}

InitOps ==
    /\ InitCommon
    /\ remote = [q \in Paths |-> IF q = "/" THEN DirNode ELSE Absent]
    /\ opt \in {[HashChosen |-> h] : h \in {"adler32", "none"}}

UpdateStep(p) ==
    \/ UpdateGot(p) \/ UpdateOpen(p) \/ UpdateLoop(p) \/ UpdateRemoveGot(p)
    \/ UpdateRemoved(p) \/ UpdateClose(p) \/ UpdateFinalize(p)

NextOps ==
    \/ PoolStep(Main) \/ RunDefer(Main)
    \/ \E dir \in {"/d", "/e"} : CallMkdir(Main, dir) \/ CallList(Main, dir) \/ CallRmdir(Main, dir)
    \/ CallList(Main, ObjPath)
    \/ MkdirGot(Main) \/ ListGot(Main) \/ ListDisplay(Main) \/ RmdirListed(Main) \/ RmdirGot(Main)
    \/ CallPurge(Main) \/ PurgeGot(Main)
    \/ CallRemove(Main, ObjPath) \/ RemoveGot(Main)
    \/ \E q \in {"/d", "/d/o"} : CallNewObject(Main, q)
    \/ StatGot(Main) \/ NewObjectStated(Main)
    \/ CallMove(Main, ObjPath, "/e") \/ CallMoveForeign(Main, "/e") \/ MoveGot(Main) \/ MoveStated(Main)
    \/ CallMoveOtherFs(Main, ObjPath, "/e")
    \/ CallDirMove(Main, "/d", "/e") \/ CallDirMoveForeign(Main, "/e")
    \/ DirExistsGot(Main) \/ DirMoveChecked(Main) \/ DirMoveGot(Main) \/ DirMoveRename(Main)
    \/ \E input \in ShortInputs : CallUpdate(Main, input)
    \/ UpdateStep(Main)
    \/ \E t \in {"adler32", "md5"} : CallHash(Main, t) \/ CallHashRefused(Main, t)
    \/ HashGot(Main)

SpecOps == InitOps /\ [][NextOps]_vars

\* the top-level call of the caller has returned (or has ended in a panic)
Over == Depth(Main) = 0
Trace == trace[Main]
Steps == 1..Len(trace[Main])
FailedRpc(i) == Trace[i].k = "rpc" /\ ~Trace[i].ok
Issued(name) == {i \in Steps : Trace[i].k = "rpc" /\ Trace[i].name = name}
ConnectFailedFirst == Trace # <<>> /\ Trace[1].k = "dial" /\ ~Trace[1].ok

\* C3: if the remote call an operation performs on its Session fails, the
\* operation reports that failure to release, so the Session is closed and is
\* neither placed in the idle collection nor handed out again.  (The Stat by
\* which Update probes for the file is left out: its failure is an answer.)
FailedCallClosesSession ==
    Over => \A i \in Steps :
              (FailedRpc(i) /\ Trace[i].c # NoConn /\ ~(op[Main].name = "Update" /\ Trace[i].name = "Stat"))
                 => (sess[Trace[i].c].err # Nil /\ ~InPool(Trace[i].c))

\* C4: every Session an operation obtains from acquire is released (put back
\* in the idle collection, or closed) by the time the operation returns, on
\* every exit path; no operation returns while holding a Session.
NoSessionHeldAfterReturn ==
    Over =>
        /\ \A s \in Sessions :
              /\ checkedOut[s] = 0
              /\ s <= nsess => (InPool(s) \/ sess[s].closes > 0)
        /\ Cardinality({i \in Steps : Trace[i].k = "free"})
             = Cardinality({i \in Steps : Trace[i].k \in {"dial", "reuse"} /\ Trace[i].ok})

\* an Update whose write failed has returned: it had acquired one Session for
\* the upload and one for the cleanup, and a remote call on the first failed
FailedUpdateHasReturned ==
    /\ Over
    /\ op[Main].name = "Update"
    /\ rv[Main].err = "write"
    /\ Cardinality({i \in Steps : Trace[i].k = "free"}) = 2

\* C5: when the idle collection is empty and XrootdConnection fails, the
\* operation returns a non-nil connect-failure error, issues no remote call
\* and releases nothing.
ConnectFailureIsReturned ==
    (/\ Over
     /\ op[Main].name \in {"List", "Mkdir", "Rmdir", "Purge", "Move", "DirMove", "Hash", "Update", "Remove"}
     /\ ConnectFailedFirst)
       => (~rv[Main].panic /\ rv[Main].err # Nil /\ Len(Trace) = 1)

\* C10: Rmdir on a directory whose listing is non-empty returns
\* DirectoryNotEmpty and issues no RemoveDir; when the listing itself fails,
\* Rmdir returns an error and issues no RemoveDir.  (Nothing but RemoveDir
\* changes the server during Rmdir, and RemoveDir leaves a non-empty directory
\* as it is: the directory has entries when Rmdir returns exactly when it had
\* entries when it was listed.)
RmdirKeepsListedDir ==
    (Over /\ op[Main].name = "Rmdir") =>
        LET listFailed == ConnectFailedFirst
                            \/ \E i \in Steps : FailedRpc(i) /\ Trace[i].name \in {"Stat", "Dirlist"}
            nonEmpty == ~listFailed /\ Children(remote, op[Main].path) # {}
        IN /\ listFailed => (rv[Main].err # Nil /\ Issued("RemoveDir") = {})
           /\ nonEmpty => (rv[Main].err = "DirectoryNotEmpty" /\ Issued("RemoveDir") = {})

\* Rmdir has returned DirectoryNotEmpty for a directory that holds an entry
RmdirRefusedNonEmpty ==
    /\ Over
    /\ op[Main].name = "Rmdir"
    /\ Issued("Dirlist") # {}
    /\ Children(remote, op[Main].path) # {}
    /\ rv[Main].err = "DirectoryNotEmpty"

\* C11: DirMove to a destination path that already exists returns DirExists
\* and issues no Rename (and no create of the parent directory).
DirMoveKeepsExistingDestination ==
    (Over /\ op[Main].name = "DirMove" /\ op[Main].path # "foreign" /\ op[Main].dstExists)
       => /\ rv[Main].err = "DirExists"
          /\ Issued("Rename") = {}
          /\ Issued("MkdirAll") = {}

\* C12: Move with a source object of an adapter for a different Endpoint
\* returns CantMove without acquiring a Session and without any remote call.
MoveFromOtherEndpointRefused ==
    (op[Main].name = "Move" /\ op[Main].from = "other")
       => /\ Trace = <<>>
          /\ Over => rv[Main].err = "CantMove"

\* C16: with hash_chosen = none, Hash returns the empty string and a nil error
\* for every hash type asked for, without acquiring a Session, without any
\* remote call and without changing the cached hash.
HashOffReturnsEmpty ==
    [][(ncalls' # ncalls /\ op'[Main].name = "Hash" /\ opt.HashChosen = "none")
          => /\ rv'[Main] = Res(Nil, <<>>)
             /\ stack'[Main] = <<>>
             /\ trace'[Main] = <<>>
             /\ obj' = obj
             /\ remote' = remote
             /\ <<pool, poolMu, sess, nsess, checkedOut>>' = <<pool, poolMu, sess, nsess, checkedOut>>
      ]_vars

\* with hashing switched off, a Hash of a type other than adler32 has returned
\* with no error after an earlier call made a Session
HashOffAskedForMd5 ==
    /\ Over /\ op[Main].name = "Hash" /\ op[Main].t = "md5"
    /\ opt.HashChosen = "none"
    /\ rv[Main].err = Nil
    /\ nsess > 0

\* ------------------------------------------------------------- upload and read back
NextUpload ==
    \/ PoolStep(Main) \/ RunDefer(Main)
    \/ \E input \in Inputs : CallUpdate(Main, input)
    \/ UpdateStep(Main) \/ StatGot(Main)
    \/ \E t \in {"adler32", "md5"} : CallHash(Main, t) \/ CallHashRefused(Main, t)
    \/ HashGot(Main)
    \/ CallOpen(Main) \/ OpenDial(Main) \/ ReaderRead(Main) \/ ReaderClose(Main)

SpecUpload == InitOps /\ [][NextUpload]_vars

\* C6: round trip: for every input of length N (0, 1, chunk-1, chunk, chunk+1,
\* 10*chunk) and every way the reader splits it into reads, a successful Update
\* followed by Open and reading to end-of-data yields exactly the input bytes.
UploadReadsBackTheInput ==
    (Over /\ op[Main].name = "Open" /\ rv[Main].err = Nil /\ rv[Main].val.eof)
       => \A input \in op[Main].after : rv[Main].val.data = input

\* an input of ten buffers has been uploaded and read back to end-of-data
TenBuffersReadBack ==
    /\ Over
    /\ op[Main].name = "Open"
    /\ rv[Main].err = Nil
    /\ rv[Main].val.eof
    /\ op[Main].after = {Ramp(10 * BufSize)}
    /\ Len(rv[Main].val.data) = 10 * BufSize

\* Update has returned after in.Read failed with K bytes read, 0 < K < N
ReadAbortedMidway ==
    /\ Over
    /\ op[Main].name = "Update"
    /\ \E i \in Steps : /\ Trace[i].k = "read"
                        /\ 0 < Trace[i].at
                        /\ Trace[i].at < Len(op[Main].input)
CleanupDeleted == \E i \in Issued("RemoveFile") : Trace[i].ok

\* C7 as stated: if the reader returns an error other than end-of-data after K
\* bytes (0 < K < N), then after Update returns the destination object does not
\* exist on the remote, and the error returned is that read error.
AbortedUploadLeavesNoObject ==
    ReadAbortedMidway => (rv[Main].err = "read" /\ ~Exists(remote, ObjPath))

\* C7, amended: if the reader returns an error other than end-of-data after K
\* bytes (0 < K < N), Update returns that read error and not an error of the
\* cleanup; the destination object does not exist afterwards when the cleanup's
\* RemoveFile succeeded.
AbortedUploadReturnsReadError ==
    ReadAbortedMidway =>
        /\ rv[Main].err = "read"
        /\ CleanupDeleted => ~Exists(remote, ObjPath)

\* a read failed midway, the cleanup deleted the partial file, and Update
\* returned the read error
AbortedUploadCleanedUp ==
    /\ ReadAbortedMidway
    /\ CleanupDeleted
    /\ ~Exists(remote, ObjPath)
    /\ rv[Main].err = "read"

\* the stage at which a returned Update failed: a WriteAt, or the Close that
\* follows the copy loop
FailedStage ==
    IF ~(Over /\ op[Main].name = "Update") THEN Nil
    ELSE IF \E i \in Issued("WriteAt") : ~Trace[i].ok THEN "write"
    ELSE IF \E i \in Issued("Close") : ~Trace[i].ok THEN "close"
    ELSE Nil
CleanupConnectFailed == \E i \in Steps : Trace[i].k = "dial" /\ ~Trace[i].ok

\* C8 as stated: when Update fails at the write stage or at the close stage, it
\* issues one remote delete of the destination before returning, and returns
\* the original write or close failure whatever the outcome of the delete.
FailedUploadDeletesOnce ==
    FailedStage # Nil =>
        /\ Cardinality(Issued("RemoveFile")) = 1
        /\ rv[Main].err = FailedStage

\* C8, amended: when Update fails at the write stage or at the close stage, it
\* attempts one delete of the destination before returning: one RemoveFile when
\* a Session can be acquired for it, none when that acquire fails; the error
\* returned is the original write or close failure whatever the outcome.
FailedUploadAttemptsDelete ==
    FailedStage # Nil =>
        /\ Cardinality(Issued("RemoveFile")) = (IF CleanupConnectFailed THEN 0 ELSE 1)
        /\ rv[Main].err = FailedStage

\* the Close after the copy loop failed, the one RemoveFile of the cleanup
\* failed too, and Update returned the failure of Close
CloseFailedDeleteFailed ==
    /\ FailedStage = "close"
    /\ Cardinality(Issued("RemoveFile")) = 1
    /\ ~CleanupDeleted
    /\ rv[Main].err = "close"

\* C9: after a successful Update with hash_chosen = adler32 the handle's cached
\* hash is the Adler-32 digest of the uploaded bytes, and a following Hash
\* returns that digest without acquiring a Session or querying the server.
UploadCachesDigest ==
    /\ (Over /\ op[Main].name = "Update" /\ rv[Main].err = Nil /\ opt.HashChosen = "adler32")
          => obj[Main].hash = Hex8(Adler32(op[Main].input))
    /\ (op[Main].name = "Hash" /\ opt.HashChosen = "adler32" /\ op[Main].t = "adler32")
          => \A input \in op[Main].after :
                /\ Trace = <<>>
                /\ Over => (rv[Main].err = Nil /\ rv[Main].val = Hex8(Adler32(input)))

\* C17: Close on the stream returned by Open compares the number of bytes
\* delivered through the stream with the stated size of the object and returns
\* a non-nil error when they differ.
ReaderCloseReportsMismatch ==
    (/\ Over /\ op[Main].name = "Open"
     /\ Issued("xrdfile.Close") # {}
     /\ rv[Main].val.bytes # obj[Main].size)
       => rv[Main].val.closed # Nil

\* C20: at the start of every iteration of the Update loop the write index
\* equals the number of bytes already written: the chunks are written one after
\* the other from offset 0, with no overlap and no gap.
LoopIndexIsBytesWritten ==
    At(Main, "Update", "loop") =>
        LET l == Cur(Main).loc
        IN /\ l.index = Len(remote[l.path].data)
           /\ l.index + Len(l.rest) = Len(op[Main].input)
           /\ remote[l.path].data \o l.rest = op[Main].input

\* the loop starts an iteration with more than two buffers written and more
\* to come
LoopPastTwoBuffers ==
    /\ At(Main, "Update", "loop")
    /\ Cur(Main).loc.index > 2 * BufSize
    /\ Cur(Main).loc.turn > 2
    /\ Cur(Main).loc.rest # <<>>

\* ------------------------------------------------------------- concurrent callers
\* two goroutines, each with one call: Move or an Update of an empty input on
\* one side and Move on the other, the operations that acquire a second client
\* while they hold their first, on a server that has the object
Other == CHOOSE p \in Procs : p # Main
Callers == {Main, Other}

InitCallers ==
    /\ InitCommon
    /\ remote = [q \in Paths |-> IF q \in {"/", "/d"} THEN DirNode
                                 ELSE IF q = ObjPath THEN FileNode(<<1>>) ELSE Absent]
    /\ opt = [HashChosen |-> "adler32"]

\* a step of a call of goroutine p that is under way
CallerStep(p) ==
    \/ PoolStep(p) \/ RunDefer(p)
    \/ MoveGot(p) \/ MoveStated(p) \/ StatGot(p)
    \/ UpdateStep(p)

\* the one call of goroutine p
FirstMove(p) ==
    /\ op[p] = NoOp
    /\ CallMove(p, ObjPath, "/e")

FirstUpdate(p) ==
    /\ p = Main
    /\ op[p] = NoOp
    /\ CallUpdate(p, <<>>)

NextCallers ==
    \E p \in Callers :
        \/ FirstMove(p)
        \/ FirstUpdate(p)
        \/ PoolStep(p) \/ RunDefer(p)
        \/ MoveGot(p) \/ MoveStated(p) \/ StatGot(p)
        \/ UpdateStep(p)

\* the Go scheduler runs every goroutine that can run, and every remote call
\* ends: a goroutine that can take a step takes one.  A goroutine blocked in
\* poolMu.Lock() can run again once the holder, which never blocks while it
\* holds the lock, has unlocked; each caller makes one call, so the lock cannot
\* be taken away from a waiter for ever and weak fairness is enough.
FairCallers ==
    \A p \in Callers : WF_vars(CallerStep(p))

SpecCallers == InitCallers /\ [][NextCallers]_vars /\ FairCallers

\* C14: an acquire never waits for another caller's Session: a caller is held
\* up only while another holds poolMu.  With fair scheduling and remote calls
\* that end, every operation started, concurrently with others, returns in the
\* end, also one that acquires a second Session while it holds its first
\* (Move through NewObject, Update through the cleanup delete and SetModTime):
\* no deadlock can be reached.
EveryCallReturns ==
    /\ [](\A p \in Callers : (Depth(p) > 0 /\ poolMu \in {0, p}) => ENABLED CallerStep(p))
    /\ \A p \in Callers : (Depth(p) > 0) ~> (Depth(p) = 0)

\* a Move that holds its first Session has acquired a second one for NewObject
\* while another caller holds a Session too
SecondSessionBesideOtherCaller ==
    \E p, q \in Procs :
        /\ p # q
        /\ Depth(p) > 1
        /\ stack[p][1].fn = "Move" /\ stack[p][1].c # NoConn
        /\ Cur(p).fn = "Fs.stat" /\ Cur(p).c \notin {NoConn, stack[p][1].c}
        /\ Depth(q) > 0 /\ stack[q][1].c \notin {NoConn, stack[p][1].c, Cur(p).c}

\* ------------------------------------------------------------- the copy loop
\* uploads alone: the first of any input, the later ones of the empty input
Upload(p, input) ==
    /\ op[p] = NoOp \/ input = <<>>
    /\ CallUpdate(p, input)

NextCopy ==
    \/ PoolStep(Main) \/ RunDefer(Main)
    \/ \E input \in Inputs : Upload(Main, input)
    \/ UpdateStep(Main) \/ StatGot(Main)

\* a reader that reaches end-of-data or fails gets its turn: the loop is not
\* starved by the scheduler
SpecCopyFair == InitOps /\ [][NextCopy]_vars /\ WF_vars(UpdateLoop(Main))

\* the frame of the call of goroutine p, and its running frame after a step
Bottom(p) == stack[p][1]
CurNext(p) == stack'[p][Len(stack'[p])]

\* the copy loop of the Update under way has met a read or a write error
LoopFailed ==
    \E i \in Steps : \/ Trace[i].k = "read"
                      \/ (Trace[i].k = "rpc" /\ Trace[i].name = "WriteAt" /\ ~Trace[i].ok)

\* C21: the Update loop ends: with a source that in the end signals
\* end-of-data or fails, the loop is left after finitely many turns; it is left
\* for the close only when end-of-data was read and every byte written, and a
\* read error other than end-of-data or a write error ends it at once, with no
\* further read or write.
UpdateLoopTerminates ==
    /\ [][(At(Main, "Update", "loop") /\ Steps_(Main)) =>
             /\ AtNext(Main, "Update", "close") =>
                    (CurNext(Main).loc.rest = <<>> /\ trace' = trace)
             /\ trace' # trace =>
                    (stack'[Main][1].pc = "removed" /\ stack'[Main][1].loc.fail \in {"read", "write"})
          ]_vars
    /\ [](\A p \in {Main} :
             (op[p].name = "Update" /\ LoopFailed /\ Depth(p) > 0)
                => Bottom(p).pc \in {"removed", "defer"})
    /\ At(Main, "Update", "loop") ~> ~At(Main, "Update", "loop")

\* the loop was ended by a write error after more than a buffer had been stored
LoopEndedByWriteError ==
    /\ Depth(Main) > 0
    /\ Bottom(Main).fn = "Update" /\ Bottom(Main).pc = "removed"
    /\ Bottom(Main).loc.fail = "write"
    /\ Len(remote[ObjPath].data) > BufSize

\* the step is a turn of the loop that calls file.WriteAt(data[:n], index): the
\* read of the turn did not fail
TurnWrites ==
    /\ At(Main, "Update", "loop") /\ Steps_(Main)
    /\ ~(/\ Len(trace'[Main]) > Len(trace[Main])
         /\ trace'[Main][Len(trace'[Main])].k = "read")

\* C22: for a zero-length input Update reads once, the read returning
\* end-of-data, and issues no chunk write to the remote object.
EmptyInputWritesNothing ==
    [][(op[Main].name = "Update" /\ op[Main].input = <<>>) => ~TurnWrites]_vars

\* C23: whenever Update computes the diagnostic index/turn, after a loop that
\* ended without an error, turn is at least 1: no run divides by a turn count
\* of zero.
AverageChunkDividesByPositive ==
    At(Main, "Update", "close") => Cur(Main).loc.turn >= 1

\* the diagnostic is computed after a single turn that wrote an empty chunk
AverageOfEmptyUpload ==
    /\ At(Main, "Update", "close")
    /\ Cur(Main).loc.index = 0
    /\ Cur(Main).loc.turn = 1

\* ------------------------------------------------------------- a stored object
\* Hash and Update on a handle whose path is taken on the server from the start
NextStored ==
    \/ PoolStep(Main) \/ RunDefer(Main)
    \/ \E t \in {"adler32", "md5"} : CallHash(Main, t) \/ CallHashRefused(Main, t)
    \/ HashGot(Main)
    \/ \E input \in ShortInputs : CallUpdate(Main, input)
    \/ UpdateStep(Main) \/ StatGot(Main)

\* the path of the object holds a file, or a directory
InitStored ==
    /\ InitCommon
    /\ \E node \in {FileNode(<<1>>), DirNode} :
          remote = [q \in Paths |-> IF q \in {"/", "/d"} THEN DirNode
                                    ELSE IF q = ObjPath THEN node ELSE Absent]
    /\ opt = [HashChosen |-> "adler32"]

SpecStored == InitStored /\ [][NextStored]_vars

\* C24: Update clears the handle's cached hash before it acquires a Session or
\* issues a remote call, and whenever Update returns an error the cached hash
\* is empty on return.
UpdateClearsCachedHash ==
    op[Main].name = "Update" => obj[Main].hash = <<>>

\* an Update made on a handle with a cached hash has returned an error
FailedUpdateOfHashedObject ==
    /\ Over /\ op[Main].name = "Update"
    /\ op[Main].hadHash
    /\ rv[Main].err # Nil
    /\ obj[Main].hash = <<>>

\* C25: after a successful Update the handle's modification time is the one
\* the source reported (src.ModTime) and its size is the number of bytes
\* uploaded.
UpdateKeepsSourceModTime ==
    (Over /\ op[Main].name = "Update" /\ rv[Main].err = Nil /\ ~rv[Main].panic)
       => /\ obj[Main].modTime = "src"
          /\ obj[Main].size = Len(op[Main].input)

\* the response has no space separator, names another algorithm than adler32,
\* or carries a digest that is not 8 characters long
Malformed(data) ==
    LET stringdata == Split(data, " ")
    IN \/ Len(stringdata) < 2
       \/ stringdata[1] # AdlerName
       \/ Len(Split(stringdata[2], "NUL")[1]) # 8

\* C26: when the checksum response is malformed or mismatched, Hash returns
\* the empty string and a nil error, whatever hash the handle had cached, and
\* does not crash.
MalformedResponseGivesEmptyHash ==
    \A i \in Steps :
        (/\ op[Main].name = "Hash"
         /\ Trace[i].k = "rpc" /\ Trace[i].name = "Checksum" /\ Trace[i].ok
         /\ Malformed(Trace[i].data))
           => /\ ~crashed
              /\ Over => (rv[Main].err = Nil /\ rv[Main].val = <<>>)

\* C27: when the checksum query itself fails, Hash does not treat it as fatal:
\* it returns the empty string and a nil error.
FailedChecksumQueryNotFatal ==
    (Over /\ op[Main].name = "Hash" /\ \E i \in Issued("Checksum") : ~Trace[i].ok)
       => /\ rv[Main].err = Nil
          /\ rv[Main].val = <<>>

\* C28: DirMove issues its remote calls in the order existence check, create
\* of the parent directory, rename, and the rename only after the create has
\* succeeded; when the create fails DirMove returns an error and issues no
\* rename.
DirMoveRenamesAfterCreate ==
    op[Main].name = "DirMove" =>
        /\ \A i \in Issued("Rename") :
              /\ \E j \in Issued("MkdirAll") : j < i /\ Trace[j].ok
              /\ \E j \in Issued("Stat") : j < i
        /\ (\E j \in Issued("MkdirAll") : ~Trace[j].ok) =>
              /\ Issued("Rename") = {}
              /\ Over => rv[Main].err # Nil

\* the call under way or just ended was handed a client
GotClient == \E i \in Steps : Trace[i].k \in {"dial", "reuse"} /\ Trace[i].ok

\* C29: List returns DirNotFound, and no entries, whenever the resolved path
\* does not exist or exists but is not a directory.
ListOfNonDirectoryNotFound ==
    (/\ Over /\ op[Main].name = "List"
     /\ remote[op[Main].path].kind # "dir"
     /\ GotClient)
       => /\ rv[Main].err = "DirNotFound"
          /\ rv[Main].val = NoVal

\* the Open calls of the Update under way
Opens == Issued("OpenNew") \cup Issued("OpenDelete")

\* C30: Update opens the object in create-new mode exactly when its probe stat
\* found nothing or a directory, and in overwrite-with-delete mode exactly when
\* the probe found a regular file; one Open is issued per Update, and when it
\* fails Update returns the open error with no write and no cleanup delete.
UpdateOpensByProbe ==
    /\ [][(At(Main, "Update", "open") /\ Steps_(Main)) =>
             LET probe == Trace[Len(Trace)]
                 open == trace'[Main][Len(trace'[Main])]
             IN /\ probe.k = "rpc" /\ probe.name = "Stat"
                /\ Len(trace'[Main]) = Len(Trace) + 1
                /\ open.k = "rpc"
                /\ open.name = IF probe.ok /\ remote[ObjPath].kind = "file"
                                THEN "OpenDelete" ELSE "OpenNew"
                /\ ~open.ok => /\ CurNext(Main).pc = "defer"
                               /\ CurNext(Main).res.err # Nil
                               /\ remote' = remote
          ]_vars
    /\ [](op[Main].name = "Update" =>
             /\ Cardinality(Opens) <= 1
             /\ \A i \in Opens : ~Trace[i].ok =>
                   /\ \A j \in Steps : j > i => Trace[j].k = "free"
                   /\ Over => rv[Main].err \in {"remote", "exists"})

\* an Update whose probe found a directory has failed to open in create-new
\* mode
CreateOverDirectoryFailed ==
    /\ Over /\ op[Main].name = "Update"
    /\ remote[ObjPath].kind = "dir"
    /\ \E i \in Issued("OpenNew") : ~Trace[i].ok /\ Trace[i - 1].ok
    /\ rv[Main].err = "exists"

\* ------------------------------------------------------------- conservation
\* how often s is in f.pool
TimesInPool(s) == Cardinality({i \in 1..Len(pool) : pool[i] = s})

\* goroutine p has s in hand: popped or dialed by its acquire, handed to it, or
\* in use and not yet released
Owns(p, s) ==
    \/ Depth(p) > 0 /\ Cur(p).fn = "getXrootdConnection" /\ Cur(p).c = s
    \/ At(p, "user", "got") /\ rv[p].err = Nil /\ rv[p].c = s
    \/ Holding(p, s)

Owners(s) == {p \in Procs : Owns(p, s)}

\* C31: every Session the factory has made is in exactly one of three
\* conditions: idle in f.pool, where it appears once; checked out by exactly
\* one running operation; or closed.  When no operation is running no Session
\* is checked out.
SessionConservation ==
    /\ \A s \in Sessions :
          IF s > nsess
            THEN TimesInPool(s) = 0 /\ Owners(s) = {} /\ sess[s].closes = 0
            ELSE \/ TimesInPool(s) = 1 /\ Owners(s) = {} /\ sess[s].closes = 0
                 \/ TimesInPool(s) = 0 /\ Cardinality(Owners(s)) = 1 /\ sess[s].closes = 0
                 \/ TimesInPool(s) = 0 /\ Owners(s) = {} /\ sess[s].closes > 0
    /\ \A s \in Sessions : checkedOut[s] = 1 => Cardinality(Owners(s)) = 1
    /\ (\A p \in Procs : Depth(p) = 0) => \A s \in Sessions : checkedOut[s] = 0

\* one Session is idle, one is checked out and one is closed
IdleHeldAndClosed ==
    \E a, b, c \in 1..nsess :
        /\ TimesInPool(a) = 1
        /\ Owners(b) # {} /\ checkedOut[b] = 1
        /\ sess[c].closes > 0

\* ------------------------------------------------------------------ pool size
\* the Sessions dialed and not closed
LiveSessions == {s \in 1..nsess : sess[s].closes = 0}

\* the largest number of calls that have been under way at the same time, as
\* the calls recorded it
MaxRunning ==
    LET n == {op[p].running : p \in {q \in Procs : "running" \in DOMAIN op[q]}}
    IN IF n = {} THEN 0 ELSE CHOOSE m \in n : \A k \in n : k <= m

DialFailed ==
    \E p \in Procs : \E i \in 1..Len(trace[p]) :
        trace[p][i].k = "dial" /\ ~trace[p][i].ok

Closes == Issued("Close") \cup Issued("deferred Close")

OpenedAt == {i \in Opens : Trace[i].ok}

\* C33: on every exit path of Update after the remote file has been opened,
\* the remote file handle is closed exactly once, and that close comes before
\* the Session the file was opened over is released to the pool.
FileClosedOnceBeforeRelease ==
    (Over /\ op[Main].name = "Update" /\ OpenedAt # {}) =>
        /\ Cardinality(Closes) = 1
        /\ \A o \in OpenedAt : \A i \in Closes : \A j \in Steps :
               (Trace[j].k = "free" /\ Trace[j].c = Trace[o].c) => i < j

\* C34: whenever Update returns an error after the remote file was opened, a
\* failure of the finalize step (SetModTime and its re-stat) included, a remote
\* delete of the destination has been issued before Update returns.
FailedUpdateIssuesDelete ==
    (Over /\ op[Main].name = "Update" /\ OpenedAt # {} /\ rv[Main].err # Nil) =>
        Issued("RemoveFile") # {}

\* the same for the failures of the finalize step alone: the copy loop and
\* the close have succeeded
FailedFinalizeIssuesDelete ==
    (/\ Over /\ op[Main].name = "Update" /\ rv[Main].err # Nil
     /\ \E i \in Issued("Close") : Trace[i].ok) =>
        Issued("RemoveFile") # {}

\* ------------------------------------------------- DirMove's existence check
\* C35: if DirMove's destination-existence check itself ends in an error (the
\* destination is a file, or its stat fails for a reason other than not-exist,
\* or no Session could be had for it), DirMove returns an error at once; it
\* issues neither the create of the parent directory nor the rename.
DirMoveStopsOnCheckError ==
    [][(At(Main, "DirMove", "checked") /\ rv[Main].err # Nil) =>
          /\ Depth(Main)' = 0
          /\ rv'[Main].err # Nil
          /\ trace'[Main] = trace[Main]]_vars

\* ------------------------------------------------- the variant without a pool
\* In this variant of the adapter an operation dials a client of its own in
\* xrdremote and closes it itself.  The clients dialed are counted in nsess,
\* the calls of client.Close() in sess[c].closes; f.pool is not used.
XrdFrame == Frame("xrdremote", "dial", NoConn, Nil, <<>>)

\* xrdremote: xrdio.Parse and xrootd.NewClient; with an error there is no client
Xrdremote(p) ==
    /\ At(p, "xrdremote", "dial")
    /\ \E ok \in BOOLEAN :
         IF ok /\ nsess < MaxSessions
           THEN /\ nsess' = nsess + 1
                /\ Ret(p, Got(nsess + 1, Nil))
           ELSE /\ UNCHANGED nsess
                /\ Ret(p, Got(NoConn, "dial"))
    /\ UNCHANGED <<pool, poolMu, sess, checkedOut, trace, op, envVars>>

\* defer client.Close()
DeferClientClose(c) == [k |-> "cclose", c |-> c, err |-> Nil]
WithClientClose(f, c) == [f EXCEPT !.defers = Append(@, DeferClientClose(c))]
ClientClosed(c) == [sess EXCEPT ![c].closes = @ + 1]

\* a frame that has returned runs its deferred calls, last registered first:
\* client.Close() or file.Close(ctx), the results dropped
RunDeferredCloses(p) ==
    /\ ~crashed
    /\ Depth(p) > 0
    /\ Cur(p).pc = "defer"
    /\ LET f == Cur(p)
           n == Len(f.defers)
           rest == [f EXCEPT !.defers = SubSeq(f.defers, 1, n - 1)]
       IN IF n = 0
            THEN Ret(p, f.res) /\ UNCHANGED sess
            ELSE /\ Upd(p, rest)
                 /\ sess' = IF f.defers[n].k = "cclose" THEN ClientClosed(f.defers[n].c) ELSE sess
                 /\ UNCHANGED <<rv, crashed>>
    /\ UNCHANGED <<pool, poolMu, nsess, checkedOut, trace, op, envVars>>

\* the end shared by the operations: the remote call has left the server as r
\* and returned err; on an error return it, else `err = client.Close()` and
\* return that
CloseAndReturn(p, f, r, err, val) ==
    /\ remote' = r
    /\ IF err # Nil
         THEN /\ Leave(p, f, Res(err, val))
              /\ UNCHANGED sess
         ELSE \E closed \in BOOLEAN :
                /\ sess' = ClientClosed(f.c)
                /\ Leave(p, f, Res(IF closed THEN Nil ELSE "close", val))

\* an operation made of one remote call: xrdremote, defer client.Close(), the
\* call (which leaves the server as srv when it gets through), client.Close()
OneCall(p, srv) ==
    /\ IF rv[p].err # Nil
         THEN /\ Leave(p, Cur(p), Res(rv[p].err, NoVal))
              /\ UNCHANGED <<remote, sess>>
         ELSE LET f == WithClientClose(Acquired(Cur(p), rv[p]), rv[p].c)
              IN \E ok \in BOOLEAN :
                   LET out == IF ok THEN srv ELSE Done(remote, "remote")
                   IN CloseAndReturn(p, f, out.r, out.err, NoVal)
    /\ UNCHANGED <<pool, poolMu, nsess, checkedOut, trace, op, obj, opt, ncalls>>

CallLegacyMkdir(p, dir) ==
    /\ Start(p, [name |-> "Mkdir", path |-> dir],
                <<Frame("Mkdir", "got", NoConn, Nil, [path |-> dir]), XrdFrame>>)
    /\ UNCHANGED <<crashed, poolVars, remote, obj, opt>>

LegacyMkdirGot(p) ==
    /\ At(p, "Mkdir", "got")
    /\ OneCall(p, SrvMkdirAll(remote, Cur(p).loc.path))

CallLegacyPurge(p) ==
    /\ Start(p, [name |-> "Purge", path |-> "/"],
                <<Frame("Purge", "got", NoConn, Nil, [path |-> "/"]), XrdFrame>>)
    /\ UNCHANGED <<crashed, poolVars, remote, obj, opt>>

LegacyPurgeGot(p) ==
    /\ At(p, "Purge", "got")
    /\ OneCall(p, SrvRemoveAll(remote, Cur(p).loc.path))

CallLegacyRemove(p, path) ==
    /\ Start(p, [name |-> "Remove", path |-> path],
                <<Frame("Remove", "got", NoConn, Nil, [path |-> path]), XrdFrame>>)
    /\ UNCHANGED <<crashed, poolVars, remote, obj, opt>>

LegacyRemoveGot(p) ==
    /\ At(p, "Remove", "got")
    /\ OneCall(p, SrvRemoveFile(remote, Cur(p).loc.path))

\* List: Stat, then the Dirlist of display
LegacyListFrame(dir) == Frame("List", "got", NoConn, Nil, [path |-> dir])

CallLegacyList(p, dir) ==
    /\ Start(p, [name |-> "List", path |-> dir], <<LegacyListFrame(dir), XrdFrame>>)
    /\ UNCHANGED <<crashed, poolVars, remote, obj, opt>>

LegacyListGot(p) ==
    /\ At(p, "List", "got")
    /\ IF rv[p].err # Nil
         THEN /\ Leave(p, Cur(p), Res(rv[p].err, {}))
              /\ UNCHANGED <<remote, sess>>
         ELSE LET f == WithClientClose(Acquired(Cur(p), rv[p]), rv[p].c)
                  q == f.loc.path
              IN \E stat, dirlist \in BOOLEAN :
                   IF ~(stat /\ Exists(remote, q))
                     THEN /\ Leave(p, f, Res("DirNotFound", {}))
                          /\ UNCHANGED <<remote, sess>>
                     ELSE IF dirlist /\ remote[q].kind = "dir"
                       THEN CloseAndReturn(p, f, remote, Nil, Children(remote, q))
                       ELSE CloseAndReturn(p, f, remote, "remote", {})
    /\ UNCHANGED <<pool, poolMu, nsess, checkedOut, trace, op, obj, opt, ncalls>>

\* Rmdir: List, and when the directory is empty a client of its own for RemoveDir
CallLegacyRmdir(p, dir) ==
    /\ Start(p, [name |-> "Rmdir", path |-> dir],
                <<Frame("Rmdir", "listed", NoConn, Nil, [path |-> dir]),
                  LegacyListFrame(dir), XrdFrame>>)
    /\ UNCHANGED <<crashed, poolVars, remote, obj, opt>>

LegacyRmdirListed(p) ==
    /\ At(p, "Rmdir", "listed")
    /\ IF rv[p].err # Nil
         THEN Leave(p, Cur(p), Res(rv[p].err, NoVal))
         ELSE IF rv[p].val # {}
           THEN Leave(p, Cur(p), Res("DirectoryNotEmpty", NoVal))
           ELSE /\ Call(p, [Cur(p) EXCEPT !.pc = "got"], XrdFrame)
                /\ UNCHANGED <<rv, crashed>>
    /\ UNCHANGED <<poolVars, trace, op, envVars>>

LegacyRmdirGot(p) ==
    /\ At(p, "Rmdir", "got")
    /\ OneCall(p, SrvRemoveDir(remote, Cur(p).loc.path))

\* Fs.stat
LegacyStatGot(p) ==
    /\ At(p, "Fs.stat", "got")
    /\ IF rv[p].err # Nil
         THEN /\ Leave(p, Cur(p), Res(rv[p].err, NoVal))
              /\ UNCHANGED <<remote, sess>>
         ELSE LET f == WithClientClose(Acquired(Cur(p), rv[p]), rv[p].c)
              IN \E ok \in BOOLEAN :
                   IF ok /\ Exists(remote, f.loc.path)
                     THEN CloseAndReturn(p, f, remote, Nil, StatInfo(remote, f.loc.path))
                     ELSE CloseAndReturn(p, f, remote, "remote", NoVal)
    /\ UNCHANGED <<pool, poolMu, nsess, checkedOut, trace, op, obj, opt, ncalls>>

CallLegacyNewObject(p, path) ==
    /\ Start(p, [name |-> "NewObject", path |-> path],
                <<Frame("NewObject", "stated", NoConn, Nil, [path |-> path]),
                  StatFrame(path), XrdFrame>>)
    /\ UNCHANGED <<crashed, poolVars, remote, obj, opt>>

\* Move: a client for the source path, a second one for the destination path
CallLegacyMove(p, src, dst) ==
    /\ Start(p, [name |-> "Move", path |-> src, dst |-> dst],
                <<Frame("Move", "got", NoConn, Nil, [src |-> src, dst |-> dst]), XrdFrame>>)
    /\ UNCHANGED <<crashed, poolVars, remote, obj, opt>>

\* src is not an *Object of this backend
CallLegacyMoveForeign(p, dst) ==
    /\ Refuse(p, [name |-> "Move", path |-> "foreign", dst |-> dst], Res("CantMove", NoVal))

LegacyMoveGot(p) ==
    /\ At(p, "Move", "got")
    /\ IF rv[p].err # Nil
         THEN Leave(p, Cur(p), Res(rv[p].err, NoVal))
         ELSE /\ Call(p, [WithClientClose(Acquired(Cur(p), rv[p]), rv[p].c) EXCEPT !.pc = "got2"],
                      XrdFrame)
              /\ UNCHANGED <<rv, crashed>>
    /\ UNCHANGED <<poolVars, trace, op, envVars>>

\* `client` now names the second client: it is the one that renames
LegacyMoveGot2(p) ==
    /\ At(p, "Move", "got2")
    /\ IF rv[p].err # Nil
         THEN /\ Leave(p, Cur(p), Res(rv[p].err, NoVal))
              /\ UNCHANGED remote
         ELSE LET f == WithClientClose(Acquired(Cur(p), rv[p]), rv[p].c)
              IN \E ok \in BOOLEAN :
                   LET out == IF ok THEN SrvRename(remote, f.loc.src, f.loc.dst)
                              ELSE Done(remote, "remote")
                   IN /\ remote' = out.r
                      /\ IF out.err # Nil
                           THEN Leave(p, f, Res(out.err, NoVal))
                           ELSE /\ stack' = [stack EXCEPT ![p] =
                                      Below(p) \o <<[f EXCEPT !.pc = "stated"],
                                                    StatFrame(f.loc.dst), XrdFrame>>]
                                /\ UNCHANGED <<rv, crashed>>
    /\ UNCHANGED <<poolVars, trace, op, obj, opt, ncalls>>

\* dstObj, err := f.NewObject(ctx, remote), then client.Close()
LegacyMoveStated(p) ==
    /\ At(p, "Move", "stated")
    /\ CloseAndReturn(p, Cur(p), remote, ObjectStatErr(rv[p]), NoVal)
    /\ UNCHANGED <<pool, poolMu, nsess, checkedOut, trace, op, obj, opt, ncalls>>

\* dirExists: no client.Close() of its own but the deferred one
LegacyDirExistsGot(p) ==
    /\ At(p, "dirExists", "got")
    /\ IF rv[p].err # Nil
         THEN Leave(p, Cur(p), Res(rv[p].err, FALSE))
         ELSE LET f == WithClientClose(Acquired(Cur(p), rv[p]), rv[p].c)
              IN \E ok \in BOOLEAN :
                   IF ok /\ Exists(remote, f.loc.path)
                     THEN IF remote[f.loc.path].kind = "dir"
                            THEN Leave(p, f, Res(Nil, TRUE))
                            ELSE Leave(p, f, Res("IsFile", FALSE))
                     ELSE \E isNotExist \in BOOLEAN :
                            Leave(p, f, Res(IF ok /\ isNotExist THEN Nil ELSE "remote", FALSE))
    /\ UNCHANGED <<poolVars, trace, op, envVars>>

\* DirMove: its client is dialed before the existence check
CallLegacyDirMove(p, src, dst) ==
    /\ Start(p, [name |-> "DirMove", path |-> src, dst |-> dst],
                <<Frame("DirMove", "got", NoConn, Nil, [src |-> src, dst |-> dst]), XrdFrame>>)
    /\ UNCHANGED <<crashed, poolVars, remote, obj, opt>>

CallLegacyDirMoveForeign(p, dst) ==
    /\ Refuse(p, [name |-> "DirMove", path |-> "foreign", dst |-> dst], Res("CantDirMove", NoVal))

LegacyDirMoveGot(p) ==
    /\ At(p, "DirMove", "got")
    /\ IF rv[p].err # Nil
         THEN Leave(p, Cur(p), Res(rv[p].err, NoVal))
         ELSE /\ stack' = [stack EXCEPT ![p] =
                    Below(p) \o <<[WithClientClose(Acquired(Cur(p), rv[p]), rv[p].c)
                                     EXCEPT !.pc = "checked"],
                                  DirExistsFrame(Cur(p).loc.dst), XrdFrame>>]
              /\ UNCHANGED <<rv, crashed>>
    /\ UNCHANGED <<poolVars, trace, op, envVars>>

\* ok, err = f.dirExists(ctx, path): only ok is looked at; MkdirAll of the
\* parent, Rename, client.Close()
LegacyDirMoveChecked(p) ==
    /\ At(p, "DirMove", "checked")
    /\ LET f == Cur(p)
       IN IF rv[p].val = TRUE
            THEN /\ Leave(p, f, Res("DirExists", NoVal))
                 /\ UNCHANGED <<remote, sess>>
            ELSE \E mk, mv \in BOOLEAN :
                   LET made == IF mk THEN SrvMkdirAll(remote, Dir(f.loc.dst))
                               ELSE Done(remote, "remote")
                       moved == IF mv THEN SrvRename(made.r, f.loc.src, f.loc.dst)
                                ELSE Done(made.r, "remote")
                   IN IF made.err # Nil
                        THEN CloseAndReturn(p, f, made.r, made.err, NoVal)
                        ELSE CloseAndReturn(p, f, moved.r, moved.err, NoVal)
    /\ UNCHANGED <<pool, poolMu, nsess, checkedOut, trace, op, obj, opt, ncalls>>

\* Hash: the type asked for is not Adler32HashType
CallLegacyHashRefused(p, t) ==
    /\ t # "adler32"
    /\ Refuse(p, [name |-> "Hash", path |-> ObjPath, t |-> t], Res("ErrUnsupported", <<>>))

CallLegacyHash(p, t) ==
    /\ t = "adler32"
    /\ Start(p, [name |-> "Hash", path |-> ObjPath, t |-> t],
                   <<Frame("Hash", "got", NoConn, Nil, [path |-> ObjPath, t |-> t]), XrdFrame>>)
    /\ UNCHANGED <<crashed, poolVars, remote, obj, opt>>

\* string(resp.Data[8:16]): beyond the length of the data the bytes are
\* whatever the buffer holds ("?")
LegacyParsedHash(data) == [i \in 1..8 |-> IF 8 + i <= Len(data) THEN data[8 + i] ELSE "?"]

\* Hash: the file is opened and its close deferred, the checksum is asked
\* for; there is no client.Close().  resp.Data[8:16] of a response shorter
\* than 16 bytes panics when the buffer is shorter than 16 too.
LegacyHashGot(p) ==
    /\ At(p, "Hash", "got")
    /\ IF rv[p].err # Nil
         THEN /\ Leave(p, Cur(p), Res(rv[p].err, <<>>))
              /\ UNCHANGED obj
         ELSE LET f == Acquired(Cur(p), rv[p])
                  opened == [f EXCEPT !.defers = Append(@, DeferClose(f.c))]
              IN \E open, send \in BOOLEAN :
                   IF ~(open /\ remote[f.loc.path].kind = "file")
                     THEN /\ Leave(p, f, Res("remote", <<>>))
                          /\ UNCHANGED obj
                     ELSE IF ~send
                       THEN /\ Leave(p, opened, Res("remote", <<>>))
                            /\ UNCHANGED obj
                       ELSE \E data \in ChecksumResponses(remote[f.loc.path].data) :
                            \E panics \in BOOLEAN :
                              IF panics /\ Len(data) < 16
                                THEN /\ Leave(p, opened, PanicRes)
                                     /\ UNCHANGED obj
                                ELSE /\ obj' = [obj EXCEPT ![p].hash = LegacyParsedHash(data)]
                                     /\ Leave(p, opened, Res(Nil, LegacyParsedHash(data)))
    /\ UNCHANGED <<poolVars, trace, op, remote, opt, ncalls>>

\* fmt.Sprintf("%x", checksum.Sum32()): the digest in hex without leading zeros
LegacyHex(d) ==
    LET h == Hex8(d)
        nz == {i \in 1..8 : h[i] # "0"}
    IN IF nz = {} THEN <<"0">>
       ELSE SubSeq(h, CHOOSE i \in nz : \A j \in nz : i <= j, 8)

\* Update: o.hash = ""; the client
CallLegacyUpdate(p, input) ==
    /\ Start(p, [name |-> "Update", path |-> ObjPath, input |-> input],
             <<Frame("Update", "got", NoConn, Nil, [path |-> ObjPath, input |-> input, fail |-> Nil]),
               XrdFrame>>)
    /\ obj' = [obj EXCEPT ![p].hash = <<>>]
    /\ UNCHANGED <<crashed, poolVars, remote, opt>>

\* the file is opened as a new one and, when that fails, as an existing one
LegacyUpdateGot(p) ==
    /\ At(p, "Update", "got")
    /\ IF rv[p].err # Nil
         THEN /\ Leave(p, Cur(p), Res(rv[p].err, NoVal))
              /\ UNCHANGED remote
         ELSE LET f == WithClientClose(Acquired(Cur(p), rv[p]), rv[p].c)
              IN \E new, update \in BOOLEAN :
                   LET first == IF new THEN SrvOpenWrite(remote, f.loc.path, TRUE)
                                ELSE Done(remote, "remote")
                       second == IF update THEN SrvOpenWrite(remote, f.loc.path, FALSE)
                                 ELSE Done(remote, "remote")
                       opened == IF first.err = Nil THEN first ELSE second
                   IN /\ remote' = opened.r
                      /\ IF opened.err # Nil
                           THEN Leave(p, f, Res(opened.err, NoVal))
                           ELSE /\ Upd(p, [f EXCEPT !.pc = "loop"])
                                /\ UNCHANGED <<rv, crashed>>
    /\ UNCHANGED <<poolVars, trace, op, obj, opt, ncalls>>

\* the remove closure of Update
LegacyRemoveClosureFrame(path) == Frame("remove", "got", NoConn, Nil, [path |-> path])

\* the copy loop of an input of at most one buffer, and what follows it: a
\* failed read returns, a failed write removes and returns; else the checksum
\* is cached, the file is closed (a failure removes and returns) and
\* SetModTime stats the object
LegacyUpdateLoop(p) ==
    /\ At(p, "Update", "loop")
    /\ LET f == Cur(p)
           cleanup(why) == stack' = [stack EXCEPT ![p] =
                               Below(p) \o <<[f EXCEPT !.pc = "removed", !.loc.fail = why],
                                             LegacyRemoveClosureFrame(f.loc.path), XrdFrame>>]
       IN \E read, write, close \in BOOLEAN :
            IF ~read
              THEN /\ Leave(p, f, Res("read", NoVal))
                   /\ UNCHANGED <<remote, obj>>
            ELSE IF ~write
              THEN /\ cleanup("write")
                   /\ UNCHANGED <<remote, obj, rv, crashed>>
            ELSE /\ remote' = [remote EXCEPT ![f.loc.path] = FileNode(f.loc.input)]
                 /\ UNCHANGED <<rv, crashed>>
                 /\ IF ~close
                      THEN /\ cleanup("close")
                           /\ obj' = [obj EXCEPT ![p].hash = LegacyHex(Adler32(f.loc.input))]
                      ELSE /\ stack' = [stack EXCEPT ![p] =
                                 Below(p) \o <<[f EXCEPT !.pc = "finalize"],
                                               StatFrame(f.loc.path), XrdFrame>>]
                           /\ obj' = [obj EXCEPT ![p].hash = LegacyHex(Adler32(f.loc.input)),
                                                 ![p].modTime = "src"]
    /\ UNCHANGED <<poolVars, trace, op, opt, ncalls>>

\* remove(): RemoveFile over a client of its own, closed whatever RemoveFile returned
LegacyRemoveClosureGot(p) ==
    /\ At(p, "remove", "got")
    /\ IF rv[p].err # Nil
         THEN /\ Leave(p, Cur(p), NoRes)
              /\ UNCHANGED <<remote, sess>>
         ELSE LET f == WithClientClose(Acquired(Cur(p), rv[p]), rv[p].c)
              IN \E ok \in BOOLEAN :
                   LET out == IF ok THEN SrvRemoveFile(remote, f.loc.path) ELSE Done(remote, "remote")
                   IN /\ remote' = out.r
                      /\ sess' = ClientClosed(f.c)
                      /\ Leave(p, f, NoRes)
    /\ UNCHANGED <<pool, poolMu, nsess, checkedOut, trace, op, obj, opt, ncalls>>

LegacyUpdateRemoved(p) ==
    /\ At(p, "Update", "removed")
    /\ Leave(p, Cur(p), Res(Cur(p).loc.fail, NoVal))
    /\ UNCHANGED <<poolVars, trace, op, envVars>>

InitLegacy ==
    /\ InitCommon
    /\ remote = [q \in Paths |-> IF q \in {"/", "/d"} THEN DirNode
                                 ELSE IF q = ObjPath THEN FileNode(<<1>>) ELSE Absent]
    /\ opt = [HashChosen |-> "adler32"]

NextLegacy ==
    \/ Xrdremote(Main) \/ RunDeferredCloses(Main)
    \/ CallLegacyMkdir(Main, "/e") \/ LegacyMkdirGot(Main)
    \/ CallLegacyPurge(Main) \/ LegacyPurgeGot(Main)
    \/ CallLegacyRemove(Main, ObjPath) \/ LegacyRemoveGot(Main)
    \/ CallLegacyList(Main, "/d") \/ LegacyListGot(Main)
    \/ CallLegacyRmdir(Main, "/d") \/ LegacyRmdirListed(Main) \/ LegacyRmdirGot(Main)
    \/ CallLegacyNewObject(Main, ObjPath) \/ LegacyStatGot(Main) \/ NewObjectStated(Main)
    \/ CallLegacyMove(Main, ObjPath, "/e") \/ CallLegacyMoveForeign(Main, "/e")
    \/ LegacyMoveGot(Main) \/ LegacyMoveGot2(Main) \/ LegacyMoveStated(Main)
    \/ CallLegacyDirMove(Main, "/d", "/e") \/ CallLegacyDirMoveForeign(Main, "/e")
    \/ LegacyDirMoveGot(Main) \/ LegacyDirExistsGot(Main) \/ LegacyDirMoveChecked(Main)
    \/ \E t \in {"adler32", "md5"} : CallLegacyHash(Main, t) \/ CallLegacyHashRefused(Main, t)
    \/ LegacyHashGot(Main)
    \/ \E input \in ShortInputs : CallLegacyUpdate(Main, input)
    \/ LegacyUpdateGot(Main) \/ LegacyUpdateLoop(Main) \/ LegacyRemoveClosureGot(Main)
    \/ LegacyUpdateRemoved(Main) \/ UpdateFinalize(Main)

SpecLegacy == InitLegacy /\ [][NextLegacy]_vars

\* C36: in the variant without a pool, every client dialed by an operation
\* (List, Mkdir, Rmdir, Purge, Move, dirExists, DirMove, stat, Hash, Update and
\* its cleanup delete, Remove) is closed by the time the operation returns, on
\* every exit path: no client outlives the operation that dialed it.
DialedClientsClosedOnReturn ==
    Over => \A c \in 1..nsess : sess[c].closes >= 1

====
